---- MODULE Spec2Model ----
(***************************************************************************)
(* SVRF-to-ICV translator: the token-based parser (svrf_drc_parser.py),    *)
(* the line-based parsers (simple_svrf_parser.py, enhanced_svrf_parser.py) *)
(* and the translators built on them (svrf_to_icv_translator.py,           *)
(* final_enhanced_translator.py).                                          *)
(*                                                                         *)
(* Text is modelled at two levels.  A line of the input file is a sequence *)
(* of words (the pieces between blanks); a word is a string of the         *)
(* vocabulary below and Chars gives its characters.  Every test the code   *)
(* makes on characters (startswith, "in", count, \w, [\d.]) is computed on *)
(* Chars.  Words of one line are separated by single blanks, and the       *)
(* quotes of a description are written as words of their own               *)
(* (@ " Width test "), so the regular expressions of the code, whose       *)
(* elements are all separated by \s+ or \s*, match word by word.           *)
(***************************************************************************)
EXTENDS Integers, Sequences, FiniteSets, TLC

\* ------------------------------------------------------------------------
\* Characters and words
\* ------------------------------------------------------------------------

Chars ==
  "INTERNAL1" :> <<"I", "N", "T", "E", "R", "N", "A", "L", "1">> @@
  "INTERNAL2" :> <<"I", "N", "T", "E", "R", "N", "A", "L", "2">> @@
  "EXTERNAL" :> <<"E", "X", "T", "E", "R", "N", "A", "L">> @@
  "EXTERNAL1" :> <<"E", "X", "T", "E", "R", "N", "A", "L", "1">> @@
  "AREA" :> <<"A", "R", "E", "A">> @@
  "DENSITY" :> <<"D", "E", "N", "S", "I", "T", "Y">> @@
  "WINDOW" :> <<"W", "I", "N", "D", "O", "W">> @@
  "NOT" :> <<"N", "O", "T">> @@
  "INSIDE" :> <<"I", "N", "S", "I", "D", "E">> @@
  "BY" :> <<"B", "Y">> @@
  "ANTENNA" :> <<"A", "N", "T", "E", "N", "N", "A">> @@
  "MAX" :> <<"M", "A", "X">> @@
  "RATIO" :> <<"R", "A", "T", "I", "O">> @@
  "RECTANGLE" :> <<"R", "E", "C", "T", "A", "N", "G", "L", "E">> @@
  "LENGTH" :> <<"L", "E", "N", "G", "T", "H">> @@
  "WIDTH" :> <<"W", "I", "D", "T", "H">> @@
  "SAME_MASK" :> <<"S", "A", "M", "E", "_", "M", "A", "S", "K">> @@
  "OPPOSITE" :> <<"O", "P", "P", "O", "S", "I", "T", "E">> @@
  "SINGULAR" :> <<"S", "I", "N", "G", "U", "L", "A", "R">> @@
  "LAYER" :> <<"L", "A", "Y", "E", "R">> @@
  "INCLUDE" :> <<"I", "N", "C", "L", "U", "D", "E">> @@
  "LAYOUT" :> <<"L", "A", "Y", "O", "U", "T">> @@
  "AND" :> <<"A", "N", "D">> @@
  "OR" :> <<"O", "R">> @@
  "OFFGRID" :> <<"O", "F", "F", "G", "R", "I", "D">> @@
  "M1" :> <<"M", "1">> @@
  "M2" :> <<"M", "2">> @@
  "VIA1" :> <<"V", "I", "A", "1">> @@
  "GATE" :> <<"G", "A", "T", "E">> @@
  "<" :> <<"<">> @@
  ">" :> <<">">> @@
  "==" :> <<"=", "=">> @@
  ">=" :> <<">", "=">> @@
  "<=" :> <<"<", "=">> @@
  "=" :> <<"=">> @@
  "0.1" :> <<"0", ".", "1">> @@
  "0.05" :> <<"0", ".", "0", "5">> @@
  "0.7" :> <<"0", ".", "7">> @@
  "50" :> <<"5", "0">> @@
  "100" :> <<"1", "0", "0">> @@
  "1.2.3" :> <<"1", ".", "2", ".", "3">> @@
  "20.0" :> <<"2", "0", ".", "0">> @@
  "2.0" :> <<"2", ".", "0">> @@
  "{" :> <<"{">> @@
  "}" :> <<"}">> @@
  "@" :> <<"@">> @@
  "\"" :> <<"\"">> @@
  "R1" :> <<"R", "1">> @@
  "AREA_RULE" :> <<"A", "R", "E", "A", "_", "R", "U", "L", "E">> @@
  "ENC_ENCLOSED_M2" :> <<"E", "N", "C", "_", "E", "N", "C", "L", "O", "S", "E", "D", "_", "M", "2">> @@
  "LAYER_M1_WIDTH" :> <<"L", "A", "Y", "E", "R", "_", "M", "1", "_", "W", "I", "D", "T", "H">> @@
  "enclosed" :> <<"e", "n", "c", "l", "o", "s", "e", "d">> @@
  "by" :> <<"b", "y">> @@
  "check" :> <<"c", "h", "e", "c", "k">> @@
  "//" :> <<"/", "/">> @@
  "enclos" :> <<"e", "n", "c", "l", "o", "s">> @@
  "_ENCLOSED_" :> <<"_", "E", "N", "C", "L", "O", "S", "E", "D", "_">> @@
  "_SPACE" :> <<"_", "S", "P", "A", "C", "E">> @@
  "to" :> <<"t", "o">> @@
  "and" :> <<"a", "n", "d">> @@
  "9007199254740993" :> <<"9", "0", "0", "7", "1", "9", "9", "2", "5", "4", "7", "4", "0", "9", "9", "3">> @@
  "NOTCH" :> <<"N", "O", "T", "C", "H">> @@
  "(" :> <<"(">> @@
  ")" :> <<")">> @@
  "(NOT" :> <<"(", "N", "O", "T">> @@
  "M2)" :> <<"M", "2", ")">>

Vocab == DOMAIN Chars

QUOTE == "\""

UpperLetters ==
  {"A","B","C","D","E","F","G","H","I","J","K","L","M",
   "N","O","P","Q","R","S","T","U","V","W","X","Y","Z"}

LowerLetters ==
  {"a","b","c","d","e","f","g","h","i","j","k","l","m",
   "n","o","p","q","r","s","t","u","v","w","x","y","z"}

Digits == {"0","1","2","3","4","5","6","7","8","9"}

DigitVal ==
  "0" :> 0 @@ "1" :> 1 @@ "2" :> 2 @@ "3" :> 3 @@ "4" :> 4 @@
  "5" :> 5 @@ "6" :> 6 @@ "7" :> 7 @@ "8" :> 8 @@ "9" :> 9

UpperOf ==
  "a" :> "A" @@ "b" :> "B" @@ "c" :> "C" @@ "d" :> "D" @@ "e" :> "E" @@
  "f" :> "F" @@ "g" :> "G" @@ "h" :> "H" @@ "i" :> "I" @@ "j" :> "J" @@
  "k" :> "K" @@ "l" :> "L" @@ "m" :> "M" @@ "n" :> "N" @@ "o" :> "O" @@
  "p" :> "P" @@ "q" :> "Q" @@ "r" :> "R" @@ "s" :> "S" @@ "t" :> "T" @@
  "u" :> "U" @@ "v" :> "V" @@ "w" :> "W" @@ "x" :> "X" @@ "y" :> "Y" @@
  "z" :> "Z"

\* re: \w
IsWordCh(c) == c \in UpperLetters \cup LowerLetters \cup Digits \cup {"_"}

\* re: [\d.]
IsNumCh(c) == c \in Digits \cup {"."}

\* re: [<>=]
IsOpCh(c) == c \in {"<", ">", "="}

\* re.IGNORECASE folds the case of both sides
Fold(cs, ic) ==
  [i \in 1..Len(cs) |->
     IF ic /\ cs[i] \in LowerLetters THEN UpperOf[cs[i]] ELSE cs[i]]

IsPrefixSeq(k, s) == Len(k) <= Len(s) /\ SubSeq(s, 1, Len(k)) = k

IsSuffixSeq(k, s) ==
  Len(k) <= Len(s) /\ SubSeq(s, Len(s) - Len(k) + 1, Len(s)) = k

ContainsSeq(k, s) ==
  \E i \in 1..(Len(s) - Len(k) + 1) : SubSeq(s, i, i + Len(k) - 1) = k

CountCh(c, s) == Cardinality({i \in 1..Len(s) : s[i] = c})

AllCh(P(_), s) == Len(s) > 0 /\ \A i \in 1..Len(s) : P(s[i])

\* length of the longest prefix / suffix of s made of characters in P
PrefixRun(P(_), s) ==
  IF \E i \in 1..Len(s) : ~P(s[i])
  THEN (CHOOSE i \in 1..Len(s) : ~P(s[i]) /\ \A j \in 1..(i-1) : P(s[j])) - 1
  ELSE Len(s)

SuffixRun(P(_), s) ==
  IF \E i \in 1..Len(s) : ~P(s[i])
  THEN Len(s) -
       (CHOOSE i \in 1..Len(s) : ~P(s[i]) /\ \A j \in (i+1)..Len(s) : P(s[j]))
  ELSE Len(s)

\* the word whose characters are cs
WordOf(cs) ==
  LET Find(tab) == CHOOSE v \in DOMAIN tab : tab[v] = cs
  IN Find(Chars)

\* str.count(ch) on a line
CountInLine(ch, line) ==
  LET RECURSIVE Sum(_)
      Sum(i) == IF i > Len(line) THEN 0
                ELSE CountCh(ch, Chars[line[i]]) + Sum(i + 1)
  IN Sum(1)

\* `k in text` for a keyword k without blanks: k lies inside one word
HasSub(text, k) == \E i \in 1..Len(text) : ContainsSeq(Chars[k], Chars[text[i]])

\* `"k1 k2" in text`: k1 ends a word and k2 starts the next one
HasSub2(text, k1, k2) ==
  \E i \in 1..(Len(text) - 1) :
     /\ IsSuffixSeq(Chars[k1], Chars[text[i]])
     /\ IsPrefixSeq(Chars[k2], Chars[text[i + 1]])

\* line.startswith(k)
StartsWith(line, k) == Len(line) > 0 /\ IsPrefixSeq(Chars[k], Chars[line[1]])

\* ------------------------------------------------------------------------
\* float(): the text of a number to its value, in thousandths
\* ------------------------------------------------------------------------

\* float(cs) raises ValueError unless cs is digits with at most one dot
FloatOKCh(cs) ==
  /\ AllCh(IsNumCh, cs)
  /\ CountCh(".", cs) <= 1
  /\ \E i \in 1..Len(cs) : cs[i] \in Digits

DigitsVal(ds) ==
  LET RECURSIVE V(_)
      V(n) == IF n = 0 THEN 0 ELSE 10 * V(n - 1) + DigitVal[ds[n]]
  IN V(Len(ds))

FloatOfCh(cs) ==
  LET dot  == IF CountCh(".", cs) = 0 THEN Len(cs) + 1
              ELSE CHOOSE i \in 1..Len(cs) : cs[i] = "."
      ip   == SubSeq(cs, 1, dot - 1)
      fp   == SubSeq(cs, dot + 1, Len(cs))
      fp3  == [i \in 1..3 |-> IF i <= Len(fp) THEN fp[i] ELSE "0"]
  IN 1000 * DigitsVal(ip) + DigitsVal(fp3)

\* float() of a word of the text
FloatOK(w) == FloatOKCh(Chars[w])

FloatOf(w) == FloatOfCh(Chars[w])

\* int(): digits only
IntOK(w) == AllCh(LAMBDA c : c \in Digits, Chars[w])

IntOf(w) == DigitsVal(Chars[w])

\* ------------------------------------------------------------------------
\* re.search on a text of words
\* ------------------------------------------------------------------------

Lit(s)  == [k |-> "lit", s |-> s, alts |-> {}]
Wd      == [k |-> "word", s |-> "", alts |-> {}]
Nm      == [k |-> "num", s |-> "", alts |-> {}]
Op(a)   == [k |-> "op", s |-> "", alts |-> a]
OpRun   == [k |-> "oprun", s |-> "", alts |-> {}]

Op3 == Op({"<", ">", "=="})

\* does word w match element e; the first element of a pattern may start
\* inside a word and the last one may end inside a word
ElemOK(e, w, first, last, ic) ==
  LET Test(cs, ks) ==
        CASE e.k = "lit"   -> IF first THEN IsSuffixSeq(ks, cs)
                              ELSE IF last THEN IsPrefixSeq(ks, cs)
                              ELSE cs = ks
          [] e.k = "word"  -> IF first THEN SuffixRun(IsWordCh, cs) > 0
                              ELSE IF last THEN PrefixRun(IsWordCh, cs) > 0
                              ELSE AllCh(IsWordCh, cs)
          [] e.k = "num"   -> IF last THEN PrefixRun(IsNumCh, cs) > 0
                              ELSE AllCh(IsNumCh, cs)
          [] e.k = "op"    -> w \in e.alts
          [] e.k = "oprun" -> AllCh(IsOpCh, cs)
  IN Test(Fold(Chars[w], ic), Fold(Chars[e.s], ic))

\* the text captured by element e on word w
ElemCap(e, w, first, last) ==
  LET Take(cs) ==
        CASE e.k = "lit"  -> cs
          [] e.k = "word" ->
               IF first
               THEN SubSeq(cs, Len(cs) - SuffixRun(IsWordCh, cs) + 1, Len(cs))
               ELSE IF last THEN SubSeq(cs, 1, PrefixRun(IsWordCh, cs))
               ELSE cs
          [] e.k = "num"  ->
               IF last THEN SubSeq(cs, 1, PrefixRun(IsNumCh, cs)) ELSE cs
          [] OTHER -> cs
  IN IF e.k = "lit" THEN e.s ELSE WordOf(Take(Chars[w]))

MatchAt(pat, text, p, ic) ==
  /\ p + Len(pat) - 1 <= Len(text)
  /\ \A j \in 1..Len(pat) :
        ElemOK(pat[j], text[p + j - 1], j = 1, j = Len(pat), ic)

Matches(pat, text, ic) == {p \in 1..Len(text) : MatchAt(pat, text, p, ic)}

\* re.search: the leftmost match, 0 when there is none
Search(pat, text, ic) ==
  LET Leftmost(ms) ==
        IF ms = {} THEN 0 ELSE CHOOSE p \in ms : \A q \in ms : p <= q
  IN Leftmost(Matches(pat, text, ic))

\* what element j of the pattern captured in the match at p
Cap(pat, text, p, j) ==
  ElemCap(pat[j], text[p + j - 1], j = 1, j = Len(pat))

\* the match object of re.search: where the leftmost match starts (0 when
\* there is none) and match.group(j) for each element of the pattern
Match(pat, text, ic) ==
  LET At(p) == [pos |-> p,
                group |-> IF p = 0 THEN <<>>
                          ELSE [j \in 1..Len(pat) |-> Cap(pat, text, p, j)]]
  IN At(Search(pat, text, ic))

\* re.search(kw + r'\s*"([^"]+)"'): where the matches start (kw, then an
\* opening quote, then a closing quote somewhere after it)
QuotedStarts(text, kw) ==
  {p \in 1..(Len(text) - 2) :
     /\ IsSuffixSeq(Chars[kw], Chars[text[p]])
     /\ text[p + 1] = QUOTE
     /\ \E q \in (p + 2)..Len(text) : text[q] = QUOTE}

\* group(1) of the leftmost match: the words between the quotes
Quoted(text, kw) ==
  LET Leftmost(ps) == CHOOSE x \in ps : \A y \in ps : x <= y
      Closing(p) == CHOOSE x \in (p + 2)..Len(text) :
                      /\ text[x] = QUOTE
                      /\ \A y \in (p + 2)..(x - 1) : text[y] # QUOTE
      Between(p) == SubSeq(text, p + 2, Closing(p) - 1)
  IN Between(Leftmost(QuotedStarts(text, kw)))

\* the description of a rule: re.search(r'@\s*"([^"]+)"', content), "" (no
\* words) when there is no match
Description(text) ==
  LET Between(ps) ==
        IF ps = {} THEN <<>>
        ELSE LET p == CHOOSE x \in ps : \A y \in ps : x <= y
                 q == CHOOSE x \in (p + 2)..Len(text) :
                        /\ text[x] = QUOTE
                        /\ \A y \in (p + 2)..(x - 1) : text[y] # QUOTE
             IN SubSeq(text, p + 2, q - 1)
  IN Between(QuotedStarts(text, "@"))

\* ------------------------------------------------------------------------
\* FinalEnhancedTranslator (final_enhanced_translator.py)
\* ------------------------------------------------------------------------

Final_PatEnclosure ==
  <<Wd, Lit("NOT"), Lit("INSIDE"), Wd, Lit("BY"), Op({">=", "==", "<="}), Nm>>

Final_PatAntenna == <<Lit("ANTENNA"), Wd, Wd, Lit("MAX"), Lit("RATIO"), Nm>>

Final_PatRectangle ==
  <<Lit("RECTANGLE"), Wd, Lit("LENGTH"), OpRun, Nm, Lit("WIDTH"), OpRun, Nm>>

Final_PatSameMask == <<Lit("EXTERNAL1"), Wd, Op3, Nm, Lit("SAME_MASK")>>

Final_PatExternal == <<Lit("EXTERNAL"), Wd, Wd, Op3, Nm>>

Final_PatExternal1 == <<Lit("EXTERNAL1"), Wd, Op3, Nm>>

Final_PatDensity == <<Lit("DENSITY"), Wd, Lit("WINDOW"), Nm, Nm, Op3, Nm>>

Final_PatArea == <<Lit("AREA"), Wd, Op3, Nm>>

Final_PatInternal2 == <<Lit("INTERNAL2"), Wd, Op3, Nm>>

Final_PatInternal1 == <<Lit("INTERNAL1"), Wd, Op3, Nm>>

\* the fields parse_rule_content starts from; num is the text handed to
\* float() ("" when the branch converts nothing)
Final_Unknown ==
  [rule_type |-> "unknown", layer |-> "", operator |-> "", num |-> "",
   extra_params |-> <<>>, second_layer |-> "None", gate_layer |-> "None"]

\* KEYWORD layer op value
Final_Simple(pat, text, type) ==
  LET Fields(m) ==
        IF m.pos = 0 THEN Final_Unknown
        ELSE [Final_Unknown EXCEPT !.rule_type = type,
                                    !.layer = m.group[2],
                                    !.operator = m.group[3],
                                    !.num = m.group[4]]
  IN Fields(Match(pat, text, FALSE))

\* 1. enclosure: LAYER1 NOT INSIDE LAYER2 BY op value (the leftmost match)
Final_Enclosure(content) ==
  LET Fields(m) ==
        IF m.pos = 0 THEN Final_Unknown
        ELSE [Final_Unknown EXCEPT !.rule_type = "enclosure",
                                    !.layer = m.group[1],
                                    !.second_layer = m.group[4],
                                    !.operator = m.group[6],
                                    !.num = m.group[7]]
  IN Fields(Match(Final_PatEnclosure, content, FALSE))

\* the density matcher taking the last clause of the content instead of
\* the first ("last wins")
Final_Density_last(content) ==
  LET Fields(ms) ==
        IF ms = {} THEN Final_Unknown
        ELSE LET pd == CHOOSE p \in ms : \A q \in ms : p >= q
                 group == [j \in 1..7 |-> Cap(Final_PatDensity, content, pd, j)]
             IN [Final_Unknown EXCEPT
                   !.rule_type = "density",
                   !.layer = group[2],
                   !.operator = group[6],
                   !.num = group[7],
                   !.extra_params = <<group[4], group[5]>>]
  IN Fields(Matches(Final_PatDensity, content, FALSE))

\* 6. density: DENSITY layer WINDOW x y op value (the leftmost match)
Final_Density(content) ==
  LET Fields(m) ==
        IF m.pos = 0 THEN Final_Unknown
        ELSE [Final_Unknown EXCEPT
                !.rule_type = "density",
                !.layer = m.group[2],
                !.operator = m.group[6],
                !.num = m.group[7],
                !.extra_params = <<m.group[4], m.group[5]>>]
  IN Fields(Match(Final_PatDensity, content, FALSE))

\* 2. antenna: ANTENNA layer gate MAX RATIO value
Final_Antenna(content) ==
  LET Fields(m) ==
        IF m.pos = 0 THEN Final_Unknown
        ELSE [Final_Unknown EXCEPT !.rule_type = "antenna",
                                    !.layer = m.group[2],
                                    !.gate_layer = m.group[3],
                                    !.operator = "MAX_RATIO",
                                    !.num = m.group[6]]
  IN Fields(Match(Final_PatAntenna, content, FALSE))

\* 3. pattern matching: RECTANGLE layer LENGTH op value WIDTH op value
Final_Rectangle(content) ==
  LET Fields(m) ==
        IF m.pos = 0 THEN Final_Unknown
        ELSE [Final_Unknown EXCEPT
                !.rule_type = "pattern_matching",
                !.layer = m.group[2],
                !.operator = "RECTANGLE",
                !.extra_params = <<"LENGTH", m.group[4], m.group[5],
                                   "WIDTH", m.group[7], m.group[8]>>]
  IN Fields(Match(Final_PatRectangle, content, FALSE))

\* 4. multi-patterning: EXTERNAL1 layer op value SAME_MASK
Final_SameMask(content) ==
  LET Fields(m) ==
        IF m.pos = 0 THEN Final_Unknown
        ELSE [Final_Unknown EXCEPT !.rule_type = "multi_patterning",
                                    !.layer = m.group[2],
                                    !.operator = m.group[3],
                                    !.num = m.group[4],
                                    !.extra_params = <<"SAME_MASK">>]
  IN Fields(Match(Final_PatSameMask, content, FALSE))

\* 5. external: EXTERNAL layer1 layer2 op value, else EXTERNAL1 layer op value
Final_External(content) ==
  LET Fields(m) ==
        IF m.pos > 0
        THEN [Final_Unknown EXCEPT !.rule_type = "external",
                                    !.layer = m.group[2],
                                    !.second_layer = m.group[3],
                                    !.operator = m.group[4],
                                    !.num = m.group[5]]
        ELSE Final_Simple(Final_PatExternal1, content, "external1")
  IN Fields(Match(Final_PatExternal, content, FALSE))

\* the if/elif chain of parse_rule_content
Final_Classify(content) ==
  IF Search(Final_PatEnclosure, content, FALSE) > 0 THEN
    Final_Enclosure(content)
  ELSE IF HasSub(content, "ANTENNA") /\ HasSub2(content, "MAX", "RATIO") THEN
    Final_Antenna(content)
  ELSE IF HasSub(content, "RECTANGLE") THEN
    Final_Rectangle(content)
  ELSE IF HasSub(content, "SAME_MASK") THEN
    Final_SameMask(content)
  ELSE IF HasSub(content, "EXTERNAL") THEN
    Final_External(content)
  ELSE IF HasSub(content, "DENSITY") /\ HasSub(content, "WINDOW") THEN
    Final_Density(content)
  ELSE IF HasSub(content, "AREA") THEN
    Final_Simple(Final_PatArea, content, "area")
  ELSE IF HasSub(content, "INTERNAL2") THEN
    Final_Simple(Final_PatInternal2, content, "internal2")
  ELSE IF HasSub(content, "INTERNAL1") THEN
    Final_Simple(Final_PatInternal1, content, "internal1")
  ELSE Final_Unknown

\* parse_rule_content: the rule it appends, or raised when float() raises
\* ValueError before the append
Final_parse_rule_content(rule_name, content, line_num) ==
  LET Result(f) ==
        LET raised == f.num # "" /\ ~FloatOK(f.num)
        IN [raised |-> raised,
            rule |-> [name |-> rule_name,
                      description |-> Description(content),
                      rule_type |-> f.rule_type,
                      layer |-> f.layer,
                      operator |-> f.operator,
                      value |-> IF f.num = "" \/ raised THEN 0
                                ELSE FloatOf(f.num),
                      line_number |-> line_num,
                      extra_params |-> f.extra_params,
                      second_layer |-> f.second_layer,
                      gate_layer |-> f.gate_layer]]
  IN Result(Final_Classify(content))

\* the words of a line before its first "{" (line.split('{')[0].strip())
BeforeBrace(line) ==
  LET k == CHOOSE i \in 1..Len(line) :
             /\ ContainsSeq(<<"{">>, Chars[line[i]])
             /\ \A j \in 1..(i - 1) : ~ContainsSeq(<<"{">>, Chars[line[j]])
  IN SubSeq(line, 1, k - 1)

\* the scanning loop shared by the line-based parsers: from line i on, with
\* the running brace count; yields the index where the loop stops and the
\* content collected (the non-blank lines joined by blanks)
RECURSIVE ScanBlock(_, _, _, _, _)
ScanBlock(lines, i, brace_count, found, rule_content) ==
  IF i > Len(lines) THEN [i |-> i, content |-> rule_content]
  ELSE LET current_line == lines[i]
           open_braces == CountInLine("{", current_line)
           close_braces == CountInLine("}", current_line)
           found2 == found \/ open_braces > 0
           count2 == brace_count + open_braces - close_braces
           content2 == rule_content \o current_line
       IN IF found2 /\ count2 = 0
          THEN [i |-> i, content |-> content2]
          ELSE ScanBlock(lines, i + 1, count2, found2, content2)

\* parse_rule_block: the index it returns and what parse_rule_content did
Final_parse_rule_block(lines, start_idx, line_num) ==
  LET Parsed(line, scan) ==
        LET Result(res) == [i |-> scan.i, raised |-> res.raised, rule |-> res.rule]
        IN Result(Final_parse_rule_content(
                    IF HasSub(line, "{") THEN BeforeBrace(line) ELSE line,
                    scan.content, line_num))
  IN Parsed(lines[start_idx], ScanBlock(lines, start_idx, 0, FALSE, <<>>))

\* expression.replace(" kw ", " sym "): occurrences are found left to right
\* and do not overlap, so a keyword directly after a replaced one has lost
\* its leading blank and stays
RECURSIVE ReplaceFrom(_, _, _, _)
ReplaceFrom(expr, kw, sym, j) ==
  IF j > Len(expr) THEN <<>>
  ELSE IF expr[j] = kw /\ j > 1 /\ j < Len(expr)
       THEN <<sym, expr[j + 1]>> \o ReplaceFrom(expr, kw, sym, j + 2)
       ELSE <<expr[j]>> \o ReplaceFrom(expr, kw, sym, j + 1)

Replace(expr, kw, sym) == ReplaceFrom(expr, kw, sym, 1)

\* line.split('=', 1): the words left and right of the first "="
SplitEq(line) ==
  LET HasEq(cs) == ContainsSeq(<<"=">>, cs)
      \* the word with characters cs as a text, no word when cs is empty
      Piece(cs) == IF cs = <<>> THEN <<>> ELSE <<WordOf(cs)>>
      \* cs, the characters of word k, split at its first "=" (character e)
      Cut(k, cs, e) ==
        [name |-> SubSeq(line, 1, k - 1) \o Piece(SubSeq(cs, 1, e - 1)),
         expression |-> Piece(SubSeq(cs, e + 1, Len(cs)))
                          \o SubSeq(line, k + 1, Len(line))]
      InWord(k, cs) ==
        Cut(k, cs, CHOOSE x \in 1..Len(cs) :
                     cs[x] = "=" /\ \A y \in 1..(x - 1) : cs[y] # "=")
      AtWord(k) == InWord(k, Chars[line[k]])
  IN AtWord(CHOOSE x \in 1..Len(line) :
              /\ HasEq(Chars[line[x]])
              /\ \A y \in 1..(x - 1) : ~HasEq(Chars[line[y]]))

PrimaryLayer(name, gds, line_num) ==
  [name |-> name, kind |-> "gds", gds_number |-> gds, expression |-> <<>>,
   line_number |-> line_num]

DerivedLayer(name, expr, line_num) ==
  [name |-> name, kind |-> "expr", gds_number |-> 0, expression |-> expr,
   line_number |-> line_num]

\* one iteration of the while loop of parse_file on line i of the file:
\* the new i, layers, rules and includes
Final_parse_file_iter(ls, idx, st) ==
  LET line == ls[idx]
      same == [i |-> idx + 1, layers |-> st.layers, rules |-> st.rules,
               includes |-> st.includes]
  IN IF line = <<>> \/ StartsWith(line, "//") THEN same
     ELSE IF StartsWith(line, "INCLUDE") THEN
       IF QuotedStarts(line, "INCLUDE") # {}
       THEN [same EXCEPT !.includes = Append(@, Quoted(line, "INCLUDE"))]
       ELSE same
     ELSE IF StartsWith(line, "LAYOUT") THEN same
     ELSE IF StartsWith(line, "LAYER") THEN
       IF Len(line) >= 3 /\ IntOK(line[3])
       THEN [same EXCEPT !.layers =
               Append(@, PrimaryLayer(<<line[2]>>, IntOf(line[3]), idx))]
       ELSE same      \* too short, or int() raised and the except passes
     ELSE IF /\ HasSub(line, "=")
             /\ ~HasSub(line, "{")
             /\ ~HasSub2(line, "NOT", "INSIDE") THEN
       LET Derived(parts) == DerivedLayer(parts.name, parts.expression, idx)
       IN [same EXCEPT !.layers = Append(@, Derived(SplitEq(line)))]
     ELSE IF \/ HasSub(line, "{")
             \/ (idx + 1 <= Len(ls) /\ HasSub(ls[idx + 1], "{")) THEN
       LET After(b) ==
             IF b.raised THEN same      \* the except passes; i is not moved
             ELSE [same EXCEPT !.i = b.i + 1, !.rules = Append(@, b.rule)]
       IN After(Final_parse_rule_block(ls, idx, idx))
     ELSE same

\* the enclosure branch without the reading of "==" as ">="
Final_translate_enclosure_keepop(rule) ==
  [operation |-> "enclosure check",
   icv_syntax |->
     [fn |-> "enclosure",
      args |-> <<rule.second_layer, rule.layer>>,
      op |-> rule.operator,
      value |-> rule.value]]

\* translate_rule, the enclosure branch: outer layer first, "==" read as a
\* lower bound
Final_translate_enclosure(rule) ==
  [operation |-> "enclosure check",
   icv_syntax |->
     [fn |-> "enclosure",
      args |-> <<rule.second_layer, rule.layer>>,
      op |-> IF rule.operator \in {">=", "=="} THEN ">=" ELSE rule.operator,
      value |-> rule.value]]

\* translate_rule
Final_translate_rule(rule) ==
  LET one(fn, operation) ==
        [operation |-> operation,
         icv_syntax |-> [fn |-> fn, args |-> <<rule.layer>>,
                         op |-> rule.operator, value |-> rule.value]]
      translated ==
        CASE rule.rule_type = "internal1" -> one("width", "width check")
          [] rule.rule_type = "internal2" -> one("length", "length check")
          [] rule.rule_type = "external1" -> one("space", "spacing check")
          [] rule.rule_type = "external" ->
               IF rule.second_layer \notin {"None", ""}
               THEN [operation |-> "inter-layer spacing",
                     icv_syntax |-> [fn |-> "space",
                                     args |-> <<rule.layer, rule.second_layer>>,
                                     op |-> rule.operator, value |-> rule.value]]
               ELSE one("space", "inter-layer spacing")
          [] rule.rule_type = "area" -> one("area", "area check")
          [] rule.rule_type = "density" ->
               IF Len(rule.extra_params) >= 2
               THEN [operation |-> "density check",
                     icv_syntax |-> [fn |-> "density",
                                     args |-> <<rule.layer, rule.extra_params[1],
                                                rule.extra_params[2]>>,
                                     op |-> rule.operator, value |-> rule.value]]
               ELSE one("density", "density check")
          [] rule.rule_type = "enclosure" -> Final_translate_enclosure(rule)
          [] rule.rule_type = "antenna" ->
               [operation |-> "antenna check",
                icv_syntax |->
                  [fn |-> "antenna_ratio",
                   args |-> <<rule.layer,
                              IF rule.gate_layer # "None" THEN rule.gate_layer
                              ELSE "GATE">>,
                   op |-> "<=", value |-> rule.value]]
          [] rule.rule_type = "pattern_matching" ->
               [operation |-> "pattern matching",
                icv_syntax |-> [fn |-> "pattern_check",
                                args |-> <<rule.layer, "rectangle">>,
                                op |-> "", value |-> 0]]
          [] rule.rule_type = "multi_patterning" ->
               one("space_same_mask", "multi-patterning")
          [] OTHER -> one("check", "generic check")
      ICVRule(out) ==
        [name |-> rule.name, description |-> rule.description,
         layer |-> rule.layer, operation |-> out.operation,
         icv_syntax |-> out.icv_syntax, line_number |-> rule.line_number]
  IN ICVRule(translated)

\* the layer loop of translate_to_icv: "LAYER name = n;" or
\* "LAYER name = expression;" with the three replace() calls
Final_translate_layer(layer) ==
  IF layer.kind = "gds"
  THEN [name |-> layer.name, kind |-> "gds", gds_number |-> layer.gds_number,
        expression |-> <<>>]
  ELSE [name |-> layer.name, kind |-> "expr", gds_number |-> 0,
        expression |->
          Replace(Replace(Replace(layer.expression, "AND", "&"), "OR", "|"),
                  "NOT", "!")]

\* ------------------------------------------------------------------------
\* simple_svrf_parser.SVRFParser and EnhancedSVRFParser: the line loop
\* ------------------------------------------------------------------------

\* an entry of errors: "Error parsing line n: <message of the exception>"
ParseError(line_num) == [line |-> line_num]

\* parse_drc_rule / parse_enhanced_drc_rule: the index returned and what
\* the extraction did; Extract is extract_rule_details of the parser
parse_drc_rule(Extract(_, _, _), ls, start_idx, line_num) ==
  LET Parsed(line, scan) ==
        LET Result(res) == [i |-> scan.i, raised |-> res.raised, rule |-> res.rule]
        IN Result(Extract(IF HasSub(line, "{") THEN BeforeBrace(line) ELSE line,
                          scan.content, line_num))
  IN Parsed(ls[start_idx], ScanBlock(ls, start_idx, 0, FALSE, <<>>))

\* one iteration of the while loop of parse_lines on line idx: the new i,
\* layers, rules, includes and errors.  An exception raised by a statement
\* is caught, recorded in errors, and the loop goes on with the next line.
parse_lines_iter(Extract(_, _, _), ls, idx, st) ==
  LET line == ls[idx]
      same == [i |-> idx + 1, layers |-> st.layers, rules |-> st.rules,
               includes |-> st.includes, errors |-> st.errors]
      failed == [same EXCEPT !.errors = Append(@, ParseError(idx))]
  IN IF line = <<>> \/ StartsWith(line, "//") THEN same
     ELSE IF StartsWith(line, "INCLUDE") THEN
       IF QuotedStarts(line, "INCLUDE") # {}
       THEN [same EXCEPT !.includes = Append(@, Quoted(line, "INCLUDE"))]
       ELSE same
     ELSE IF StartsWith(line, "LAYOUT") THEN same
     ELSE IF StartsWith(line, "LAYER") THEN
       IF Len(line) >= 3 /\ line[1] = "LAYER"
       THEN IF IntOK(line[3])
            THEN [same EXCEPT !.layers =
                    Append(@, PrimaryLayer(<<line[2]>>, IntOf(line[3]), idx))]
            ELSE failed
       ELSE same
     ELSE IF HasSub(line, "=") /\ ~HasSub(line, "{") THEN
       LET Derived(parts) == DerivedLayer(parts.name, parts.expression, idx)
       IN [same EXCEPT !.layers = Append(@, Derived(SplitEq(line)))]
     ELSE IF \/ HasSub(line, "{")
             \/ (idx + 1 <= Len(ls) /\ HasSub(ls[idx + 1], "{")) THEN
       LET After(b) ==
             IF b.raised THEN failed
             ELSE [same EXCEPT !.i = b.i + 1, !.rules = Append(@, b.rule)]
       IN After(parse_drc_rule(Extract, ls, idx, idx))
     ELSE same

\* ---- simple_svrf_parser.SVRFParser.extract_rule_details ----

Simple_Patterns ==
  << [pat |-> <<Lit("INTERNAL1"), Wd, Op3, Nm>>, cat |-> "width/area"],
     [pat |-> <<Lit("INTERNAL2"), Wd, Op3, Nm>>, cat |-> "width/length"],
     [pat |-> <<Lit("EXTERNAL1"), Wd, Op3, Nm>>, cat |-> "spacing"],
     [pat |-> <<Lit("EXTERNAL"), Wd, Wd, Op3, Nm>>, cat |-> "spacing2"],
     [pat |-> <<Wd, Lit("NOT"), Lit("INSIDE"), Wd, Lit("BY"), Op({"=="}), Nm>>,
      cat |-> "enclosure"],
     [pat |-> <<Lit("AREA"), Wd, Op3, Nm>>, cat |-> "area"],
     [pat |-> <<Lit("DENSITY"), Wd, Lit("WINDOW"), Nm, Nm, Op3, Nm>>,
      cat |-> "density"] >>

\* match.group(1).lower()
LowerKw ==
  "INTERNAL1" :> "internal1" @@ "INTERNAL2" :> "internal2" @@
  "EXTERNAL1" :> "external1" @@ "EXTERNAL" :> "external" @@
  "AREA" :> "area" @@ "DENSITY" :> "density"

\* the index of the first pattern of the list that matches, 0 if none
FirstPattern(patterns, content) ==
  LET First(ks) == IF ks = {} THEN 0 ELSE CHOOSE k \in ks : \A j \in ks : k <= j
  IN First({k \in 1..Len(patterns) :
              Search(patterns[k].pat, content, TRUE) > 0})

Simple_extract_rule_details(rule_name, content, line_num) ==
  LET \* the fields set from the match m of the entry e of the list; num is
      \* the text handed to float()
      Fields(e, m) ==
        IF e.cat = "enclosure"
        THEN [matched |-> TRUE, rule_type |-> "enclosure",
              layer |-> m.group[1], operator |-> "==",
              num |-> m.group[Len(e.pat)]]
        ELSE [matched |-> TRUE, rule_type |-> LowerKw[e.pat[1].s],
              layer |-> m.group[2], operator |-> m.group[Len(e.pat) - 1],
              num |-> m.group[Len(e.pat)]]
      Chosen(k) ==
        IF k = 0
        THEN [matched |-> FALSE, rule_type |-> "unknown", layer |-> "",
              operator |-> "", num |-> ""]
        ELSE Fields(Simple_Patterns[k],
                    Match(Simple_Patterns[k].pat, content, TRUE))
      Rule(f, raised) ==
        [raised |-> raised,
         rule |-> [name |-> rule_name,
                   description |-> Description(content),
                   rule_type |-> f.rule_type,
                   layer |-> f.layer,
                   operator |-> f.operator,
                   value |-> IF ~f.matched \/ raised THEN 0 ELSE FloatOf(f.num),
                   line_number |-> line_num,
                   extra_params |-> IF f.matched /\ HasSub(content, "SINGULAR")
                                    THEN <<"SINGULAR">> ELSE <<>>]]
      Checked(f) == Rule(f, f.matched /\ ~FloatOK(f.num))
  IN Checked(Chosen(FirstPattern(Simple_Patterns, content)))

Simple_parse_lines_iter(ls, idx, st) ==
  parse_lines_iter(Simple_extract_rule_details, ls, idx, st)

\* ---- EnhancedSVRFParser.extract_enhanced_rule_details ----

Enhanced_Patterns ==
  << [pat |-> <<Lit("INTERNAL1"), Wd, Op3, Nm>>, cat |-> "width"],
     [pat |-> <<Lit("INTERNAL2"), Wd, Op3, Nm>>, cat |-> "length"],
     [pat |-> <<Lit("EXTERNAL1"), Wd, Op3, Nm>>, cat |-> "spacing"],
     [pat |-> <<Lit("EXTERNAL"), Wd, Wd, Op3, Nm>>, cat |-> "inter_spacing"],
     [pat |-> <<Lit("AREA"), Wd, Op3, Nm>>, cat |-> "area"],
     [pat |-> <<Lit("DENSITY"), Wd, Lit("WINDOW"), Nm, Nm, Op3, Nm>>,
      cat |-> "density"],
     [pat |-> <<Lit("DENSITY"), Wd, Lit("WINDOW"), Nm, Nm, Op({"<", ">"}), Nm>>,
      cat |-> "density_simple"],
     [pat |-> <<Wd, Lit("NOT"), Lit("INSIDE"), Wd, Lit("BY"),
                Op({">=", "==", "<="}), Nm>>,
      cat |-> "enclosure"],
     [pat |-> <<Lit("ANTENNA"), Wd, Wd, Lit("MAX"), Lit("RATIO"), Nm>>,
      cat |-> "antenna_ratio"],
     [pat |-> <<Lit("RECTANGLE"), Wd, Lit("LENGTH"), OpRun, Nm,
                Lit("WIDTH"), OpRun, Nm>>,
      cat |-> "rectangle"],
     [pat |-> <<Lit("EXTERNAL1"), Wd, Op3, Nm, Lit("SAME_MASK")>>,
      cat |-> "same_mask_spacing"],
     [pat |-> <<Lit("INTERNAL1"), Wd, Op3, Nm, Lit("OPPOSITE")>>,
      cat |-> "opposite_constraint"] >>

NoPattern ==
  [type |-> "None", length_op |-> "", length_val |-> 0,
   width_op |-> "", width_val |-> 0]

\* the fields set by the branch of the matching pattern; nums are the
\* texts handed to float(), no_group says that the branch asked the match
\* for a group the pattern does not have (IndexError)
Enhanced_Unknown ==
  [rule_type |-> "unknown", layer |-> "", operator |-> "", num |-> "",
   nums |-> {}, extra_params |-> <<>>, enclosure_layers |-> <<>>,
   gate_layer |-> "None", rect |-> <<>>, no_group |-> FALSE]

Enhanced_Branch(cat, m) ==
  LET g(j) == m.group[j]
      three(type) ==
        [Enhanced_Unknown EXCEPT !.rule_type = type, !.layer = g(2),
                                 !.operator = g(3), !.num = g(4),
                                 !.nums = {g(4)}]
  IN CASE cat = "width" -> three("internal1")
       [] cat = "length" -> three("internal2")
       [] cat = "spacing" -> three("external1")
       [] cat = "inter_spacing" ->
            [Enhanced_Unknown EXCEPT
               !.rule_type = "external", !.layer = g(2),
               !.operator = g(4), !.num = g(5), !.nums = {g(5)},
               !.extra_params = <<g(3)>>]
       [] cat = "area" -> three("area")
       [] cat \in {"density", "density_simple"} ->
            \* the density patterns have six groups: group(6) is the
            \* threshold and group(7) does not exist
            [Enhanced_Unknown EXCEPT
               !.rule_type = "density", !.layer = g(2),
               !.operator = g(7), !.no_group = TRUE]
       [] cat = "enclosure" ->
            [Enhanced_Unknown EXCEPT
               !.rule_type = "enclosure", !.layer = g(1),
               !.enclosure_layers = <<g(4)>>,
               !.operator = g(6), !.num = g(7), !.nums = {g(7)}]
       [] cat = "antenna_ratio" ->
            [Enhanced_Unknown EXCEPT
               !.rule_type = "antenna", !.layer = g(2),
               !.gate_layer = g(3), !.operator = "MAX_RATIO",
               !.num = g(6), !.nums = {g(6)}]
       [] cat = "rectangle" ->
            [Enhanced_Unknown EXCEPT
               !.rule_type = "pattern_matching", !.layer = g(2),
               !.operator = "RECTANGLE", !.nums = {g(5), g(8)},
               !.rect = <<g(4), g(5), g(7), g(8)>>]
       [] cat = "same_mask_spacing" ->
            [three("multi_patterning") EXCEPT
               !.extra_params = <<"SAME_MASK">>]
       [] cat = "opposite_constraint" ->
            [three("advanced_constraint") EXCEPT
               !.extra_params = <<"OPPOSITE">>]
\* the first pattern of the list that matches decides the branch
Enhanced_Fields(patterns, content) ==
  LET Chosen(k) ==
        IF k = 0 THEN Enhanced_Unknown
        ELSE Enhanced_Branch(patterns[k].cat,
                             Match(patterns[k].pat, content, TRUE))
  IN Chosen(FirstPattern(patterns, content))

\* extract_enhanced_rule_details with the pattern list given
Enhanced_extract_with(patterns, rule_name, content, line_num) ==
  LET Rule(f, raised) ==
        [raised |-> raised,
         rule |-> [name |-> rule_name,
                   description |-> Description(content),
                   rule_type |-> f.rule_type,
                   layer |-> f.layer,
                   operator |-> f.operator,
                   value |-> IF f.num = "" \/ raised THEN 0 ELSE FloatOf(f.num),
                   line_number |-> line_num,
                   extra_params |->
                     f.extra_params \o
                     (IF HasSub(content, "SINGULAR") THEN <<"SINGULAR">>
                      ELSE <<>>),
                   enclosure_layers |-> f.enclosure_layers,
                   gate_layer |-> f.gate_layer,
                   pattern_params |->
                     IF f.rect = <<>> \/ raised THEN NoPattern
                     ELSE [type |-> "rectangle",
                           length_op |-> f.rect[1],
                           length_val |-> FloatOf(f.rect[2]),
                           width_op |-> f.rect[3],
                           width_val |-> FloatOf(f.rect[4])]]]
      Checked(f) == Rule(f, f.no_group \/ \E w \in f.nums : ~FloatOK(w))
  IN Checked(Enhanced_Fields(patterns, content))

Enhanced_extract_enhanced_rule_details(rule_name, content, line_num) ==
  Enhanced_extract_with(Enhanced_Patterns, rule_name, content, line_num)

Enhanced_parse_lines_iter(ls, idx, st) ==
  parse_lines_iter(Enhanced_extract_enhanced_rule_details, ls, idx, st)

\* ------------------------------------------------------------------------
\* SVRFToICVTranslator (svrf_to_icv_translator.py)
\* ------------------------------------------------------------------------

\* where the \w run holding position j of cs starts
RunStart(cs, j) == j - SuffixRun(IsWordCh, SubSeq(cs, 1, j)) + 1

\* re.search(r'\w+_ENCLOSED_(\w+)', w, re.IGNORECASE) inside one word: the
\* positions of "_ENCLOSED_" with a \w character before and after
EnclosedAt(w) ==
  LET At(cs, k) ==
        {j \in 2..(Len(cs) - Len(k)) :
           /\ SubSeq(cs, j, j + Len(k) - 1) = k
           /\ IsWordCh(cs[j - 1])
           /\ IsWordCh(cs[j + Len(k)])}
  IN At(Fold(Chars[w], TRUE), Chars["_ENCLOSED_"])

\* group(1) of that search: the match starts as far left as it can, the
\* leading \w+ is greedy, so the last "_ENCLOSED_" of that run is taken
EnclosedGroup(w) ==
  LET \* the leftmost start of a match and the last "_ENCLOSED_" reached from it
      Left(cs, js) == CHOOSE x \in {RunStart(cs, j - 1) : j \in js} :
                        \A j \in js : x <= RunStart(cs, j - 1)
      Last(cs, js, s) == CHOOSE x \in js :
                           /\ RunStart(cs, x - 1) = s
                           /\ \A y \in js : RunStart(cs, y - 1) = s => y <= x
      Run(rest) == WordOf(SubSeq(rest, 1, PrefixRun(IsWordCh, rest)))
      Group(raw, cs, js, n) ==
        Run(SubSeq(raw, Last(cs, js, Left(cs, js)) + n, Len(raw)))
  IN Group(Chars[w], Fold(Chars[w], TRUE), EnclosedAt(w),
           Len(Chars["_ENCLOSED_"]))

\* re.search(r'(\w+)_(\w+)_SPACE', w, re.IGNORECASE) inside one word: the
\* pairs <<a, b>> of the "_" after group 1 and the "_SPACE" after group 2
SpaceAt(w) ==
  LET At(cs, k) ==
        {ab \in (2..Len(cs)) \X (2..Len(cs)) :
           /\ cs[ab[1]] = "_"
           /\ IsWordCh(cs[ab[1] - 1])
           /\ ab[1] + 1 < ab[2]
           /\ ab[2] + Len(k) - 1 <= Len(cs)
           /\ SubSeq(cs, ab[2], ab[2] + Len(k) - 1) = k
           /\ AllCh(IsWordCh, SubSeq(cs, ab[1], ab[2]))}
  IN At(Fold(Chars[w], TRUE), Chars["_SPACE"])

\* group(2) of that search: both groups greedy, group 1 first
SpaceGroup(w) ==
  LET Left(cs, ps) == CHOOSE x \in {RunStart(cs, ab[1]) : ab \in ps} :
                        \A ab \in ps : x <= RunStart(cs, ab[1])
      InRun(cs, ps, s) == {ab \in ps : RunStart(cs, ab[1]) = s}
      A(qs) == CHOOSE x \in {ab[1] : ab \in qs} : \A ab \in qs : ab[1] <= x
      B(qs, a) == CHOOSE x \in {ab[2] : ab \in {q \in qs : q[1] = a}} :
                    \A ab \in qs : ab[1] = a => ab[2] <= x
      Cut(raw, qs, a) == WordOf(SubSeq(raw, a + 1, B(qs, a) - 1))
      Pick(raw, qs) == Cut(raw, qs, A(qs))
      Group(raw, cs, ps) == Pick(raw, InRun(cs, ps, Left(cs, ps)))
  IN Group(Chars[w], Fold(Chars[w], TRUE), SpaceAt(w))

\* the first word of text with a match of the in-word pattern, 0 if none
FirstWordWith(At(_), text) ==
  LET First(ks) == IF ks = {} THEN 0 ELSE CHOOSE k \in ks : \A j \in ks : k <= j
  IN First({k \in 1..Len(text) : At(text[k]) # {}})

\* one pattern of extract_second_layer / extract_enclosing_layer on one
\* text: the group returned, "" when the pattern does not match
GroupIn(kind, text) ==
  LET Enclosed(k) == IF k = 0 THEN "" ELSE EnclosedGroup(text[k])
      Space(k) == IF k = 0 THEN "" ELSE SpaceGroup(text[k])
      Group(m, j) == IF m.pos = 0 THEN "" ELSE m.group[j]
  IN CASE kind = "_ENCLOSED_" -> Enclosed(FirstWordWith(EnclosedAt, text))
       [] kind = "_SPACE" -> Space(FirstWordWith(SpaceAt, text))
       [] kind = "enclosed by" ->
            Group(Match(<<Lit("enclosed"), Lit("by"), Wd>>, text, TRUE), 3)
       [] kind = "enclos" ->
            Group(Match(<<Wd, Lit("enclos")>>, text, TRUE), 1)
       [] kind \in {"to", "and"} ->
            Group(Match(<<Wd, Lit(kind), Wd>>, text, TRUE), 3)

\* the loop over the patterns: each is tried on the name, then on the
\* description; "" stands for None
RECURSIVE FirstGroup(_, _, _)
FirstGroup(kinds, rule_name, description) ==
  LET InDescription(g) ==
        IF g # "" THEN g ELSE FirstGroup(Tail(kinds), rule_name, description)
      InName(g) ==
        IF g # "" THEN g ELSE InDescription(GroupIn(Head(kinds), description))
  IN IF kinds = <<>> THEN "" ELSE InName(GroupIn(Head(kinds), rule_name))

extract_second_layer(rule_name, description) ==
  FirstGroup(<<"_SPACE", "to", "and">>, rule_name, description)

extract_enclosing_layer(rule_name, description) ==
  FirstGroup(<<"_ENCLOSED_", "enclosed by", "enclos">>, rule_name, description)

rule_mappings ==
  {"internal1", "internal2", "external1", "external", "area", "density",
   "enclosure"}

ICVRule(rule, operation, op, fn, args) ==
  [name |-> rule.name,
   description |-> rule.description,
   layer |-> rule.layer,
   operation |-> operation,
   constraint |-> [op |-> op, value |-> rule.value],
   value |-> rule.value,
   icv_syntax |-> [fn |-> fn, args |-> args, op |-> op, value |-> rule.value],
   line_number |-> rule.line_number]

Basic_translate_enclosure(rule) ==
  LET With(enclosing_layer) ==
        IF enclosing_layer # ""
        THEN ICVRule(rule, "enclosure check", ">=", "enclosure",
                     <<enclosing_layer, rule.layer>>)
        ELSE ICVRule(rule, "enclosure constraint", ">=", "enclosure",
                     <<rule.layer>>)
  IN With(extract_enclosing_layer(rule.name, rule.description))

\* rule_mappings[rule.rule_type](rule)
Basic_translate_rule(rule) ==
  LET t == rule.rule_type
      one(operation, fn) ==
        ICVRule(rule, operation, rule.operator, fn, <<rule.layer>>)
  IN CASE t = "internal1" ->
            one(IF rule.operator = "<" THEN "width check"
                ELSE "width constraint", "width")
       [] t = "internal2" -> one("length check", "length")
       [] t = "external1" ->
            one(IF rule.operator = "<" THEN "spacing check"
                ELSE "spacing constraint", "space")
       [] t = "external" ->
            LET With(second_layer) ==
                  IF second_layer # ""
                  THEN ICVRule(rule, "inter-layer spacing", rule.operator,
                               "space", <<rule.layer, second_layer>>)
                  ELSE one("spacing check", "space")
            IN With(extract_second_layer(rule.name, rule.description))
       [] t = "area" -> one("area check", "area")
       [] t = "density" ->
            \* extra_params is a list, never a dict: the default window stays
            ICVRule(rule, "density check", rule.operator, "density",
                    <<rule.layer, "100", "100">>)
       [] t = "enclosure" -> Basic_translate_enclosure(rule)

\* translate_rules: the rules of unsupported types are skipped
RECURSIVE Basic_translate_rules(_)
Basic_translate_rules(rs) ==
  IF rs = <<>> THEN <<>>
  ELSE (IF Head(rs).rule_type \in rule_mappings
        THEN <<Basic_translate_rule(Head(rs))>> ELSE <<>>)
       \o Basic_translate_rules(Tail(rs))

\* translate_layer_expression with replace("AND", "&") in place of
\* replace(" AND ", " & "): the keyword is replaced wherever its letters stand
Basic_translate_layer_expression_anywhere(expression) ==
  LET Sub(w) == IF HasSub(<<w>>, "AND") THEN "&"
                ELSE IF HasSub(<<w>>, "OR") THEN "|"
                ELSE IF HasSub(<<w>>, "NOT") THEN "!"
                ELSE w
  IN [k \in 1..Len(expression) |-> Sub(expression[k])]

\* translate_layer_expression
Basic_translate_layer_expression(expression) ==
  Replace(Replace(Replace(expression, "AND", "&"), "OR", "|"), "NOT", "!")

\* translate_layers: "LAYER name = number;" or "LAYER name = expression;"
Basic_translate_layer(layer) ==
  IF layer.kind = "gds"
  THEN [name |-> layer.name, kind |-> "gds", gds_number |-> layer.gds_number,
        expression |-> <<>>]
  ELSE [name |-> layer.name, kind |-> "expr", gds_number |-> 0,
        expression |-> Basic_translate_layer_expression(layer.expression)]

\* ------------------------------------------------------------------------
\* SVRFLexer (svrf_drc_parser.py): the text is a sequence of characters
\* ------------------------------------------------------------------------

NL == "\n"

BACKSLASH == "\\"

\* the characters of a file given as lines of words: the words of a line
\* separated by one blank, every line ended by a newline
RECURSIVE JoinWords(_)
JoinWords(ws) ==
  IF ws = <<>> THEN <<>>
  ELSE IF Len(ws) = 1 THEN Chars[ws[1]]
  ELSE Chars[ws[1]] \o <<" ">> \o JoinWords(Tail(ws))

RECURSIVE TextOf(_)
TextOf(ls) ==
  IF ls = <<>> THEN <<>> ELSE JoinWords(Head(ls)) \o <<NL>> \o TextOf(Tail(ls))

keywords ==
  {"LAYER", "INCLUDE", "LAYOUT", "SYSTEM", "GDSII", "AND", "OR", "NOT",
   "INSIDE", "BY", "INTERNAL1", "INTERNAL2", "EXTERNAL", "EXTERNAL1", "AREA",
   "DENSITY", "WINDOW", "SINGULAR"}

\* the spelling of the keywords (the text of this model has no SYSTEM and
\* no GDSII)
KeywordChars ==
  [k \in keywords |->
     CASE k = "SYSTEM" -> <<"S", "Y", "S", "T", "E", "M">>
       [] k = "GDSII" -> <<"G", "D", "S", "I", "I">>
       [] OTHER -> Chars[k]]

single_char_tokens ==
  "{" :> "LBRACE" @@ "}" :> "RBRACE" @@ "(" :> "LPAREN" @@ ")" :> "RPAREN" @@
  "," :> "COMMA" @@ ";" :> "SEMICOLON" @@ "@" :> "AT" @@ "<" :> "LT" @@
  ">" :> "GT" @@ "=" :> "ASSIGN"

IsBlankCh(c) == c \in {" ", "\t", "\r"}

IsAlphaCh(c) == c \in UpperLetters \cup LowerLetters

Token(type, value, line, column) ==
  [type |-> type, value |-> value, line |-> line, column |-> column]

\* advance() without the test for a newline: the column always grows
AdvanceOver_noreset(cs, p, q, line, column) ==
  [line |-> line, column |-> column + (q - p)]

\* advance() over the characters p..(q-1): the line and column after them
AdvanceOver(cs, p, q, line, column) ==
  LET nls == {k \in p..(q - 1) : cs[k] = NL}
  IN IF nls = {} THEN [line |-> line, column |-> column + (q - p)]
     ELSE LET last == CHOOSE k \in nls : \A j \in nls : j <= k
          IN [line |-> line + Cardinality(nls), column |-> q - last]

\* str.strip() of a comment
Strip(cs) ==
  LET IsSp(c) == IsBlankCh(c) \/ c = NL
      a == PrefixRun(IsSp, cs)
      b == SuffixRun(IsSp, cs)
  IN IF a = Len(cs) THEN <<>> ELSE SubSeq(cs, a + 1, Len(cs) - b)

\* the loop of read_string from position p on: the position after the
\* string and its value
RECURSIVE ReadString(_, _, _, _)
ReadString(cs, p, quote_char, value) ==
  IF p > Len(cs) THEN [pos |-> p, value |-> value]
  ELSE IF cs[p] = quote_char THEN [pos |-> p + 1, value |-> value]
  ELSE IF cs[p] = BACKSLASH
       THEN IF p + 1 <= Len(cs)
            THEN ReadString(cs, p + 2, quote_char, Append(value, cs[p + 1]))
            ELSE ReadString(cs, p + 1, quote_char, value)
  ELSE ReadString(cs, p + 1, quote_char, Append(value, cs[p]))

\* an unknown character is left in place
Lex_Unknown_stay(p) == p

\* tokenize, "Unknown character - skip it": the position after advance()
Lex_Unknown(p) == p + 1

\* one pass through the loop of tokenize from position p0 on: the position,
\* line and column after it, the tokens it appends, and whether it ends in
\* the break after skip_whitespace
Lex_iter(cs, p0, line0, column0) ==
  LET rest0 == SubSeq(cs, p0, Len(cs))
      p == p0 + PrefixRun(IsBlankCh, rest0)
      lc == AdvanceOver(cs, p0, p, line0, column0)
      line == lc.line
      column == lc.column
      rest == SubSeq(cs, p, Len(cs))
      peek == IF p + 1 <= Len(cs) THEN cs[p + 1] ELSE ""
      go(q, toks) ==
        LET n == AdvanceOver(cs, p, q, line, column)
        IN [pos |-> q, line |-> n.line, column |-> n.column, toks |-> toks,
            break |-> FALSE]
  IN IF p > Len(cs)
     THEN [pos |-> p, line |-> line, column |-> column, toks |-> <<>>,
           break |-> TRUE]
     ELSE LET char == cs[p]
          IN IF char = "/" /\ peek = "/"
             THEN LET n == PrefixRun(LAMBDA c : c # NL, SubSeq(cs, p + 2, Len(cs)))
                  IN go(p + 2 + n,
                        <<Token("COMMENT", Strip(SubSeq(cs, p + 2, p + 1 + n)),
                                line, column)>>)
             ELSE IF char = NL
             THEN go(p + 1, <<Token("NEWLINE", <<NL>>, line, column)>>)
             ELSE IF char \in {QUOTE, "'"}
             THEN LET r == ReadString(cs, p + 1, char, <<>>)
                  IN go(r.pos, <<Token("STRING", r.value, line, column)>>)
             ELSE IF char \in Digits \/ (char = "." /\ peek \in Digits)
             THEN LET n == PrefixRun(IsNumCh, rest)
                  IN go(p + n, <<Token("NUMBER", SubSeq(rest, 1, n), line, column)>>)
             ELSE IF IsAlphaCh(char) \/ char = "_"
             THEN LET n == PrefixRun(IsWordCh, rest)
                      value == SubSeq(rest, 1, n)
                      ks == {k \in keywords : KeywordChars[k] = value}
                  IN go(p + n,
                        <<Token(IF ks = {} THEN "IDENTIFIER" ELSE CHOOSE k \in ks : TRUE,
                                value, line, column)>>)
             ELSE IF char = "=" /\ peek = "="
             THEN go(p + 2, <<Token("EQ", <<"=", "=">>, line, column)>>)
             ELSE IF char \in DOMAIN single_char_tokens
             THEN go(p + 1, <<Token(single_char_tokens[char], <<char>>, line, column)>>)
             ELSE go(Lex_Unknown(p), <<>>)

\* the loop of tokenize from position p0 on, and the EOF token after it
RECURSIVE LexFrom(_, _, _, _, _)
LexFrom(cs, p0, line0, column0, tokens) ==
  IF p0 > Len(cs)
  THEN Append(tokens, Token("EOF", <<>>, line0, column0))
  ELSE LET Continue(r) ==
             IF r.break
             THEN Append(tokens, Token("EOF", <<>>, r.line, r.column))
             ELSE LexFrom(cs, r.pos, r.line, r.column, tokens \o r.toks)
       IN Continue(Lex_iter(cs, p0, line0, column0))

\* SVRFLexer(text).tokenize()
tokenize(text) == LexFrom(text, 1, 1, 1, <<>>)

\* ------------------------------------------------------------------------
\* SVRFParser (svrf_drc_parser.py), over the token list; positions count
\* from 1
\* ------------------------------------------------------------------------

\* advance(): nothing happens on the last token
Adv(ts, p) == IF p < Len(ts) THEN p + 1 ELSE p

\* advance() when the current token has one of the types
Opt(ts, p, types) == IF ts[p].type \in types THEN Adv(ts, p) ELSE p

\* skip_newlines, skip_comments: advance while the type is the given one
\* (the last token is EOF, so the loop stops there at the latest)
RECURSIVE SkipType(_, _, _)
SkipType(ts, p, type) ==
  IF ts[p].type = type /\ p < Len(ts) THEN SkipType(ts, p + 1, type) ELSE p

\* advance until a token of one of the stop types; EOF is one of them
RECURSIVE SkipTo(_, _, _)
SkipTo(ts, p, stop) ==
  IF ts[p].type \notin stop /\ p < Len(ts) THEN SkipTo(ts, p + 1, stop) ELSE p

\* " ".join(parts)
RECURSIVE JoinSp(_)
JoinSp(parts) ==
  IF parts = <<>> THEN <<>>
  ELSE IF Len(parts) = 1 THEN parts[1]
  ELSE parts[1] \o <<" ">> \o JoinSp(Tail(parts))

\* parse_layer_expression from position p: the position it stops at and
\* the expression
Tok_parse_layer_expression(ts, p) ==
  LET q == SkipTo(ts, p, {"NEWLINE", "EOF", "LBRACE"})
  IN [pos |-> q,
      expression |-> JoinSp([k \in 1..(q - p) |-> ts[p + k - 1].value])]

LayerDefinition(name, kind, gds_layer, expression, line) ==
  [name |-> name, kind |-> kind, gds_layer |-> gds_layer,
   expression |-> expression, line |-> line]

\* the locals of parse_drc_rule
NoRule ==
  [rule_name |-> <<>>, rule_line |-> 0, description |-> <<>>,
   rule_type |-> <<>>, layer |-> <<>>, constraint |-> <<>>, value |-> 0,
   params |-> {}, has_window |-> FALSE, window_params |-> <<>>]

\* the result of a stretch of straight-line code: where the parser is
\* afterwards (raised: an exception left parse)
Out(pc2, p, ls, rs, incs, errs, l) ==
  [pc |-> pc2, pos |-> p, layers |-> ls, rules |-> rs, includes |-> incs,
   errors |-> errs, loc |-> l]

\* "if NUMBER: value = float(value); advance()" at position p
NumberAt(ts, p) ==
  IF ts[p].type # "NUMBER" THEN [raised |-> FALSE, seen |-> FALSE, pos |-> p, value |-> 0]
  ELSE IF ~FloatOKCh(ts[p].value)
       THEN [raised |-> TRUE, seen |-> TRUE, pos |-> p, value |-> 0]
  ELSE [raised |-> FALSE, seen |-> TRUE, pos |-> Adv(ts, p),
        value |-> FloatOfCh(ts[p].value)]

\* the end of the DENSITY branch, after the window: constraint and value,
\* then on to the loop that skips to the closing brace
DensityTail(ts, p, st, l) ==
  LET p1 == Opt(ts, p, {"LT", "GT"})
      n == NumberAt(ts, p1)
      l2 == [l EXCEPT !.constraint = IF ts[p].type \in {"LT", "GT"}
                                     THEN ts[p].value ELSE @,
                      !.value = IF n.seen /\ ~n.raised THEN n.value ELSE @]
  IN Out(IF n.raised THEN "raised" ELSE "brace_test", n.pos,
         st.layers, st.rules, st.includes, st.errors, l2)

\* parse_drc_rule from its first statement up to the first of its loops
\* that is taken step by step
Tok_parse_drc_rule_head(ts, p, st) ==
  LET p1 == Adv(ts, p)                       \* the rule name
      p2 == Adv(ts, p1)                      \* {
      p3 == SkipType(ts, SkipType(ts, p2, "NEWLINE"), "COMMENT")
      p4 == Opt(ts, p3, {"AT"})
      has_desc == p4 # p3 /\ ts[p4].type = "STRING"
      p5 == IF has_desc THEN Adv(ts, p4) ELSE p4
      p6 == SkipType(ts, p5, "NEWLINE")
      rule_type == ts[p6].value
      p7 == Adv(ts, p6)
      l0 == [NoRule EXCEPT !.rule_name = ts[p].value,
                           !.rule_line = ts[p].line,
                           !.description = IF has_desc THEN ts[p4].value ELSE <<>>,
                           !.rule_type = rule_type]
      p8 == Opt(ts, p7, {"IDENTIFIER"})
      l1 == [l0 EXCEPT !.layer = IF ts[p7].type = "IDENTIFIER"
                                 THEN ts[p7].value ELSE <<>>]
      ops == IF rule_type \in {Chars["AREA"], Chars["DENSITY"]}
             THEN {"LT", "GT"} ELSE {"LT", "GT", "EQ"}
      p9 == Opt(ts, p8, ops)
      l2 == [l1 EXCEPT !.constraint = IF ts[p8].type \in ops
                                      THEN ts[p8].value ELSE <<>>]
      n == NumberAt(ts, p9)
      l3 == [l2 EXCEPT !.value = IF n.seen /\ ~n.raised THEN n.value ELSE 0]
      out(pc2, q, l) ==
        Out(pc2, q, st.layers, st.rules, st.includes, st.errors, l)
  IN IF rule_type \in {Chars["INTERNAL1"], Chars["INTERNAL2"],
                       Chars["EXTERNAL"], Chars["EXTERNAL1"]}
     THEN out(IF n.raised THEN "raised" ELSE "extras_test", n.pos, l3)
     ELSE IF rule_type = Chars["AREA"]
     THEN out(IF n.raised THEN "raised" ELSE "brace_test", n.pos, l3)
     ELSE IF rule_type = Chars["DENSITY"]
     THEN IF ts[p8].type = "WINDOW"
          THEN out("window_test", Adv(ts, p8), l1)
          ELSE DensityTail(ts, p8, st, l1)
     ELSE out("brace_test", p7, l0)

\* the significand of a Python float (IEEE 754 binary64)
\* 2^53 in decimal digits: a float has a mantissa of 53 bits, so the
\* integers below 2^53 are floats and above it every second, fourth, ... is
MantissaLimit == <<9, 0, 0, 7, 1, 9, 9, 2, 5, 4, 7, 4, 0, 9, 9, 2>>

\* str(int(float(cs))) for a text cs that float() accepts: the integer part
\* is read exactly, rounded to the nearest float (ties to even) and printed
\* again; the fraction only decides the rounding.  Digits are handled one by
\* one, so the value is not limited by the width of a machine integer.  (The
\* fractions of the texts are short: they never round up to the next
\* integer when the integer part has fewer than 53 bits.)
IntOfFloatCh(cs) ==
  LET dot == IF CountCh(".", cs) = 0 THEN Len(cs) + 1
             ELSE CHOOSE k \in 1..Len(cs) : cs[k] = "."
      fp == [k \in 1..(Len(cs) - dot) |-> DigitVal[cs[dot + k]]]
      Last(s) == s[Len(s)]
      \* ds without its leading zeros
      Norm(ds) ==
        LET nz == {k \in 1..Len(ds) : ds[k] # 0}
        IN IF nz = {} THEN <<>>
           ELSE SubSeq(ds, CHOOSE k \in nz : \A j \in nz : k <= j, Len(ds))
      Less(x, y) ==
        \/ Len(x) < Len(y)
        \/ /\ Len(x) = Len(y)
           /\ \E k \in 1..Len(x) :
                 x[k] < y[k] /\ \A j \in 1..(k - 1) : x[j] = y[j]
      \* the decimal digits ds halved: a digit takes over the remainder of
      \* the digit before it
      Half(ds) ==
        Norm([k \in 1..Len(ds) |->
                (10 * (IF k = 1 THEN 0 ELSE ds[k - 1] % 2) + ds[k]) \div 2])
      \* the decimal digits ds doubled: a digit of 5 or more carries one to
      \* the digit before it
      Twice(ds) ==
        IF ds = <<>> THEN <<>>
        ELSE (IF ds[1] >= 5 THEN <<1>> ELSE <<>>) \o
             [k \in 1..Len(ds) |->
                (2 * ds[k] + (IF k < Len(ds) /\ ds[k + 1] >= 5 THEN 1 ELSE 0)) % 10]
      \* ds plus one
      Inc(ds) ==
        LET low == {k \in 1..Len(ds) : ds[k] # 9}
        IN IF low = {} THEN <<1>> \o [k \in 1..Len(ds) |-> 0]
           ELSE LET c == CHOOSE k \in low : \A j \in low : j <= k
                IN [k \in 1..Len(ds) |->
                      IF k < c THEN ds[k] ELSE IF k = c THEN ds[k] + 1 ELSE 0]
      \* the fraction is a half or more, and it is not zero and not a half
      half_or_more == fp # <<>> /\ fp[1] >= 5
      off_half ==
        \/ fp # <<>> /\ fp[1] \notin {0, 5}
        \/ \E k \in 2..Len(fp) : fp[k] # 0
      \* round-to-nearest-even of ds, given the highest bit dropped below it
      \* and whether anything lower was dropped
      Nearest(ds, round, sticky) ==
        IF round /\ (sticky \/ Last(ds) % 2 = 1) THEN Inc(ds) ELSE ds
      \* the number ds rounded to a mantissa of 53 bits: halved until it is
      \* below 2^53, rounded there, and doubled as often
      RECURSIVE Fit(_, _, _)
      Fit(ds, round, sticky) ==
        IF Less(ds, MantissaLimit)
        THEN IF Less(ds, Half(MantissaLimit)) THEN ds
             ELSE Nearest(ds, round, sticky)
        ELSE Twice(Fit(Half(ds), Last(ds) % 2 = 1, round \/ sticky) \o <<>>)
      DigitCh == <<"0", "1", "2", "3", "4", "5", "6", "7", "8", "9">>
      Str(ds) == IF ds = <<>> THEN <<"0">>
                 ELSE [k \in 1..Len(ds) |-> DigitCh[ds[k] + 1]]
  IN Str(Fit(Norm([k \in 1..(dot - 1) |-> DigitVal[cs[k]]]),
             half_or_more, off_half))

\* parse_layer_definition, the current token being LAYER
Tok_parse_layer_definition(ts, p, st) ==
  LET p1 == Adv(ts, p)
      p2 == Adv(ts, p1)
      out(pc2, q, ls, errs) ==
        Out(pc2, q, ls, st.rules, st.includes, errs, NoRule)
      Derived(e) ==
        out("main_test", e.pos,
            Append(st.layers, LayerDefinition(ts[p1].value, "expr", <<>>,
                                              e.expression, ts[p].line)),
            st.errors)
  IN IF ts[p1].type # "IDENTIFIER"
     THEN out("main_test", p1, st.layers,
              Append(st.errors, [what |-> "Expected layer name",
                                 line |-> ts[p].line]))
     ELSE IF ts[p2].type = "NUMBER"
     THEN IF FloatOKCh(ts[p2].value)
          THEN out("main_test", Adv(ts, p2),
                   Append(st.layers,
                          LayerDefinition(ts[p1].value, "gds",
                                          IntOfFloatCh(ts[p2].value),
                                          <<>>, ts[p].line)),
                   st.errors)
          ELSE out("raised", p2, st.layers, st.errors)
     ELSE IF ts[p2].type = "ASSIGN"
     THEN Derived(Tok_parse_layer_expression(ts, Adv(ts, p2)))
     ELSE out("main_test", p2, st.layers, st.errors)

\* parse_derived_layer with the "=" left in the expression
Tok_parse_derived_layer_keepassign(ts, p, st) ==
  LET p1 == Adv(ts, p)
      out(q, ls) ==
        Out("main_test", q, ls, st.rules, st.includes, st.errors, NoRule)
      Derived(e) ==
        out(e.pos,
            Append(st.layers, LayerDefinition(ts[p].value, "expr", <<>>,
                                              e.expression, ts[p].line)))
  IN IF ts[p].type # "IDENTIFIER" THEN out(p, st.layers)
     ELSE IF ts[p1].type = "ASSIGN"
     THEN Derived(Tok_parse_layer_expression(ts, p1))
     ELSE out(p1, st.layers)

\* parse_derived_layer: NAME = expression
Tok_parse_derived_layer(ts, p, st) ==
  LET p1 == Adv(ts, p)
      out(q, ls) ==
        Out("main_test", q, ls, st.rules, st.includes, st.errors, NoRule)
      Derived(e) ==
        out(e.pos,
            Append(st.layers, LayerDefinition(ts[p].value, "expr", <<>>,
                                              e.expression, ts[p].line)))
  IN IF ts[p].type # "IDENTIFIER" THEN out(p, st.layers)
     ELSE IF ts[p1].type = "ASSIGN"
     THEN Derived(Tok_parse_layer_expression(ts, Adv(ts, p1)))
     ELSE out(p1, st.layers)

\* the body of the loop of parse after the two skips: the statement at
\* position p
Tok_statement(ts, p, st) ==
  LET t == ts[p].type
      out(pc2, q, ls, incs, errs) ==
        Out(pc2, q, ls, st.rules, incs, errs, NoRule)
      skip(q) == out("main_test", q, st.layers, st.includes, st.errors)
  IN IF t = "EOF" THEN out("done", p, st.layers, st.includes, st.errors)
     ELSE IF t = "INCLUDE" THEN
       LET p1 == Adv(ts, p)
       IN IF ts[p1].type = "STRING"
          THEN out("main_test", Adv(ts, p1), st.layers,
                   Append(st.includes, ts[p1].value), st.errors)
          ELSE skip(p1)
     ELSE IF t = "LAYER" THEN Tok_parse_layer_definition(ts, p, st)
     ELSE IF t = "LAYOUT" THEN skip(SkipTo(ts, p, {"NEWLINE", "EOF"}))
     ELSE IF t = "IDENTIFIER" THEN
       IF p + 1 <= Len(ts) /\ ts[p + 1].type = "ASSIGN"
       THEN Tok_parse_derived_layer(ts, p, st)
       ELSE IF p + 1 <= Len(ts) /\ ts[p + 1].type = "LBRACE"
       THEN Tok_parse_drc_rule_head(ts, p, st)
       ELSE skip(Adv(ts, p))
     ELSE skip(Adv(ts, p))

\* the DRCRule appended at the end of parse_drc_rule
Tok_DRCRule(l) ==
  [name |-> l.rule_name, description |-> l.description,
   rule_type |-> l.rule_type, layer |-> l.layer, constraint |-> l.constraint,
   value |-> l.value, line |-> l.rule_line,
   additional_params |->
     [params |-> l.params, has_window |-> l.has_window,
      window |-> l.window_params]]

\* ------------------------------------------------------------------------
\* Input files
\* ------------------------------------------------------------------------

MaxClauses == 2

MaxItems == 2

\* the statements a rule body is made of: one complete clause per rule
\* category, clauses that carry a category keyword without its full shape,
\* and a threshold that [\d.]+ matches and float() rejects
Clauses ==
  { <<"VIA1", "NOT", "INSIDE", "M1", "BY", ">=", "0.05">>,
    <<"VIA1", "NOT", "INSIDE", "M2", "BY", "==", "0.05">>,
    <<"GATE", "NOT", "INSIDE", "M1", "BY", "<=", "0.1">>,
    <<"ANTENNA", "M1", "GATE", "MAX", "RATIO", "50">>,
    <<"ANTENNA", "M1", "MAX", "RATIO", "50">>,
    <<"RECTANGLE", "M1", "LENGTH", ">", "20.0", "WIDTH", ">", "2.0">>,
    <<"RECTANGLE", "M1">>,
    <<"EXTERNAL1", "M1", "<", "0.1", "SAME_MASK">>,
    <<"EXTERNAL", "M1", "M2", "<", "0.1">>,
    <<"EXTERNAL1", "M1", "<", "0.1">>,
    <<"DENSITY", "M1", "WINDOW", "100", "100", "<", "0.7">>,
    <<"DENSITY", "M2", "WINDOW", "50", "50", ">", "0.1">>,
    <<"AREA", "M1", "<", "0.1">>,
    <<"INTERNAL2", "M1", "<", "0.1">>,
    <<"INTERNAL1", "M1", "<", "0.1">>,
    <<"INTERNAL1", "M1", "<", "1.2.3">>,
    <<"OFFGRID", "M1">> }

\* rule name and description (<<>>: no annotation)
Heads ==
  { [name |-> "R1", desc |-> <<>>],
    [name |-> "R1", desc |-> <<"AREA", "check">>],
    [name |-> "AREA_RULE", desc |-> <<>>] }

Bodies == UNION {[1..n -> Clauses] : n \in 1..MaxClauses}

HeadLine(h) ==
  <<h.name, "{">> \o
  (IF h.desc = <<>> THEN <<>> ELSE <<"@", QUOTE>> \o h.desc \o <<QUOTE>>)

\* NAME { @ " description "
\*     clause
\*     ...
\* }
BlockLines(h, body) ==
  <<HeadLine(h)>> \o [k \in 1..Len(body) |-> body[k]] \o << <<"}">> >>

\* files of one rule block, over every head and body
BlockFiles == {BlockLines(h, b) : h \in Heads, b \in Bodies}

\* the top-level statements of a file, each a list of lines
Items ==
  { << <<"LAYER", "M1", "100">> >>,
    << <<"LAYER", "M2", "0.1">> >>,
    << <<"GATE", "=", "M1", "AND", "M2">> >>,
    << <<"INCLUDE", QUOTE, "M1", QUOTE>> >>,
    << <<"LAYOUT", "M1">> >>,
    << <<"//", "M1">>, <<>> >>,
    << <<"R1", "{", "INTERNAL1", "M1", "<", "0.1", "}">> >>,
    << <<"R1", "{">>, <<>>, <<"AREA", "M1", ">", "0.05">>, <<"}">> >>,
    << <<"R1">>, <<"{", "EXTERNAL1", "M1", "==", "0.1">>, <<"}">> >>,
    << <<"R1", "{">>, <<"INTERNAL1", "M1", "==", "1.2.3">>, <<"}">> >>,
    << <<"LAYER_M1_WIDTH", "{", "INTERNAL1", "M1", "<", "0.1", "}">> >>,
    << <<"R1", "{">>, <<"OFFGRID", "M1">> >> }

RECURSIVE Flatten(_)
Flatten(ss) == IF ss = <<>> THEN <<>> ELSE Head(ss) \o Flatten(Tail(ss))

ItemFiles ==
  {Flatten(f) : f \in UNION {[1..n -> Items] : n \in 1..MaxItems}}

Files == BlockFiles \cup ItemFiles

\* the number of rule blocks of a file: blocks are not nested in these
\* files, so every "{" opens one
RECURSIVE NumBlocks(_)
NumBlocks(ls) ==
  IF ls = <<>> THEN 0 ELSE CountInLine("{", Head(ls)) + NumBlocks(Tail(ls))

\* ------------------------------------------------------------------------
\* State
\* ------------------------------------------------------------------------

VARIABLES
  lines,       \* the lines of the input file
  i,           \* the line index of the parse loop (1-based)
  pc,          \* where the program is
  layers,      \* parser: layers
  rules,       \* parser: rules
  includes,    \* parser: includes
  errors,      \* parser: errors
  icv_layers,  \* translator: icv_layers
  icv_rules,   \* translator: icv_rules
  tokens,      \* token parser: tokens
  pos,         \* token parser: pos (1-based)
  loc          \* token parser: the locals of parse_drc_rule

\* the state of the token parser, which the line-based programs do not have
tokvars == <<tokens, pos, loc>>

vars == <<lines, i, pc, layers, rules, includes, errors, icv_layers, icv_rules,
          tokens, pos, loc>>

\* the state after the constructor, about to read file f
Start(f) ==
  /\ lines = f
  /\ i = 1
  /\ pc = "parse"
  /\ layers = <<>>
  /\ rules = <<>>
  /\ includes = <<>>
  /\ errors = <<>>
  /\ icv_layers = <<>>
  /\ icv_rules = <<>>
  /\ tokens = <<>>
  /\ pos = 0
  /\ loc = NoRule

\* ------------------------------------------------------------------------
\* FinalEnhancedTranslator: parse_file, then translate_to_icv
\* ------------------------------------------------------------------------

Final_Init == \E f \in Files : Start(f)

\* one iteration of the loop of parse_file; the loop ends when i passes
\* the last line
Final_ParseStep ==
  /\ pc = "parse"
  /\ \E r \in {Final_parse_file_iter(lines, i,
                 [layers |-> layers, rules |-> rules, includes |-> includes])} :
        /\ i' = r.i
        /\ layers' = r.layers
        /\ rules' = r.rules
        /\ includes' = r.includes
        /\ pc' = IF r.i > Len(lines) THEN "parsed" ELSE "parse"
  /\ UNCHANGED <<lines, errors, icv_layers, icv_rules, tokvars>>

\* translate_to_icv without the two assignments of [] at its start
Final_TranslateToIcv_append ==
  /\ pc \in {"parsed", "translated"}
  /\ Len(icv_rules) <= 2 * Len(rules)
  /\ icv_layers' =
       icv_layers \o [k \in 1..Len(layers) |-> Final_translate_layer(layers[k])]
  /\ icv_rules' =
       icv_rules \o [k \in 1..Len(rules) |-> Final_translate_rule(rules[k])]
  /\ pc' = "translated"
  /\ UNCHANGED <<lines, i, layers, rules, includes, errors, tokvars>>

\* translate_to_icv, callable any number of times after parse_file
Final_TranslateToIcv ==
  /\ pc \in {"parsed", "translated"}
  /\ icv_layers' = [k \in 1..Len(layers) |-> Final_translate_layer(layers[k])]
  /\ icv_rules' = [k \in 1..Len(rules) |-> Final_translate_rule(rules[k])]
  /\ pc' = "translated"
  /\ UNCHANGED <<lines, i, layers, rules, includes, errors, tokvars>>

Final_Next == Final_ParseStep \/ Final_TranslateToIcv

SpecFinal == Final_Init /\ [][Final_Next]_vars

\* ------------------------------------------------------------------------
\* Properties of FinalEnhancedTranslator
\* ------------------------------------------------------------------------

LayerNames == {"M1", "M2", "VIA1", "GATE"}

\* the content string parse_rule_block hands to parse_rule_content for the
\* block that starts on line ln
ContentOf(ln) == ScanBlock(lines, ln, 0, FALSE, <<>>).content

\* the matchers in the order of precedence, highest first
ShapeOrder ==
  <<"enclosure", "antenna", "pattern_matching", "multi_patterning",
    "external", "external1", "density", "area", "internal2", "internal1">>

ShapePat(cat) ==
  CASE cat = "enclosure" -> Final_PatEnclosure
    [] cat = "antenna" -> Final_PatAntenna
    [] cat = "pattern_matching" -> Final_PatRectangle
    [] cat = "multi_patterning" -> Final_PatSameMask
    [] cat = "external" -> Final_PatExternal
    [] cat = "external1" -> Final_PatExternal1
    [] cat = "density" -> Final_PatDensity
    [] cat = "area" -> Final_PatArea
    [] cat = "internal2" -> Final_PatInternal2
    [] cat = "internal1" -> Final_PatInternal1

\* the complete shape of category cat is present in the text
HasShape(text, cat) == Search(ShapePat(cat), text, FALSE) > 0

ShapesIn(text) ==
  {ShapeOrder[k] : k \in {x \in 1..Len(ShapeOrder) : HasShape(text, ShapeOrder[x])}}

HighestShape(text) ==
  LET ks == {k \in 1..Len(ShapeOrder) : HasShape(text, ShapeOrder[k])}
  IN IF ks = {} THEN "unknown"
     ELSE ShapeOrder[CHOOSE k \in ks : \A j \in ks : k <= j]

ParseDone == pc \in {"parsed", "translated"}

\* every "{" of the file has its "}" and no rule name on a "{" line starts
\* with a statement keyword
RECURSIVE NumClosers(_)
NumClosers(ls) ==
  IF ls = <<>> THEN 0 ELSE CountInLine("}", Head(ls)) + NumClosers(Tail(ls))

PlainBlocks ==
  /\ NumBlocks(lines) = NumClosers(lines)
  /\ \A k \in 1..Len(lines) :
        HasSub(lines[k], "{") =>
           /\ ~StartsWith(lines[k], "LAYER")
           /\ ~StartsWith(lines[k], "LAYOUT")
           /\ ~StartsWith(lines[k], "INCLUDE")

\* C3: when parse_file has returned, rules holds exactly one rule per rule
\* block of the file (no block is dropped, whatever its body says).
C3_NoBlockDropped ==
  (ParseDone /\ PlainBlocks) => Len(rules) = NumBlocks(lines)

\* C4: every recorded rule has the category of the highest-precedence
\* matcher whose complete shape is in its content, "unknown" only when no
\* shape is (stated for rules named R1 without annotation, so that only the
\* body decides).
C4_HighestShapeWins ==
  \A k \in 1..Len(rules) :
     (rules[k].name = <<"R1">> /\ rules[k].description = <<>>) =>
        rules[k].rule_type = HighestShape(ContentOf(rules[k].line_number))

\* the first line of the block holds the name, the brace and the annotation
\* only; the body is the rest of the content
HeadOnly(line) == line[Len(line)] \in {"{", QUOTE}

BodyText(ln) ==
  LET c == ContentOf(ln) IN SubSeq(c, Len(lines[ln]) + 1, Len(c))

\* C5: a body with exactly one category shape, which classifies into that
\* category on its own, is classified into it under every rule name and
\* every description.
C5_HeadDoesNotChangeCategory ==
  \A k \in 1..Len(rules) :
     LET ln == rules[k].line_number
         body == BodyText(ln)
     IN (/\ HeadOnly(lines[ln])
         /\ Cardinality(ShapesIn(body)) = 1
         /\ Final_Classify(body).rule_type \in ShapesIn(body))
        => rules[k].rule_type \in ShapesIn(body)

\* the clause "L1 NOT INSIDE L2 BY op v" starts at word p of the text
EnclosureAt(c, p) ==
  /\ p + 6 <= Len(c)
  /\ c[p] \in LayerNames
  /\ c[p + 1] = "NOT"
  /\ c[p + 2] = "INSIDE"
  /\ c[p + 3] \in LayerNames
  /\ c[p + 4] = "BY"
  /\ c[p + 5] \in {">=", "==", "<="}
  /\ FloatOK(c[p + 6])

\* C8: a rule whose content holds "L1 NOT INSIDE L2 BY op v" is recorded as
\* enclosure with layer L1 and second_layer L2, and translate_rule emits
\* enclosure(L2, L1) op2 v, op2 being ">=" for ">=" and "==" and op
\* otherwise (the first such clause of the content is meant).
C8_EnclosureTranslation ==
  \A k \in 1..Len(rules) :
     LET c == ContentOf(rules[k].line_number)
         ps == {p \in 1..Len(c) : EnclosureAt(c, p)}
     IN ps # {} =>
          LET p == CHOOSE x \in ps : \A y \in ps : x <= y
              op == c[p + 5]
          IN /\ rules[k].rule_type = "enclosure"
             /\ rules[k].layer = c[p]
             /\ rules[k].second_layer = c[p + 3]
             /\ rules[k].operator = op
             /\ rules[k].value = FloatOf(c[p + 6])
             /\ pc = "translated" =>
                  /\ Len(icv_rules) = Len(rules)
                  /\ icv_rules[k].icv_syntax =
                       [fn |-> "enclosure",
                        args |-> <<c[p + 3], c[p]>>,
                        op |-> IF op = "<=" THEN "<=" ELSE ">=",
                        value |-> FloatOf(c[p + 6])]

\* an "==" enclosure rule has been translated to a ">=" check
C8_Witness ==
  /\ pc = "translated"
  /\ \E k \in 1..Len(rules) :
        /\ \E p \in 1..Len(ContentOf(rules[k].line_number)) :
              EnclosureAt(ContentOf(rules[k].line_number), p)
        /\ rules[k].operator = "=="
        /\ icv_rules[k].icv_syntax.op = ">="
        /\ icv_rules[k].icv_syntax.args = <<"M2", "VIA1">>

\* the clause "DENSITY L WINDOW x y op v" starts at word p of the text
DensityAt(c, p) ==
  /\ p + 6 <= Len(c)
  /\ c[p] = "DENSITY"
  /\ c[p + 1] \in LayerNames
  /\ c[p + 2] = "WINDOW"
  /\ FloatOK(c[p + 3])
  /\ FloatOK(c[p + 4])
  /\ c[p + 5] \in {"<", ">", "=="}
  /\ FloatOK(c[p + 6])

\* a keyword of a matcher that is tried before the density matcher
BeforeDensity(c) ==
  \/ HasShape(c, "enclosure")
  \/ HasSub(c, "ANTENNA")
  \/ HasSub(c, "RECTANGLE")
  \/ HasSub(c, "SAME_MASK")
  \/ HasSub(c, "EXTERNAL")

SimpleHeads ==
  { [name |-> "R1", desc |-> <<>>],
    [name |-> "R1", desc |-> <<"VIA1", "enclosed", "by", "M2">>],
    [name |-> "ENC_ENCLOSED_M2", desc |-> <<>>] }

SimpleClauses ==
  { <<"VIA1", "NOT", "INSIDE", "M1", "BY", "==", "0.05">>,
    <<"VIA1", "NOT", "INSIDE", "M2", "BY", "==", "0.05">>,
    <<"GATE", "NOT", "INSIDE", "M1", "BY", ">=", "0.1">>,
    <<"EXTERNAL", "M1", "M2", "<", "0.1">>,
    <<"EXTERNAL1", "M1", "<", "0.1">>,
    <<"DENSITY", "M2", "WINDOW", "50", "50", ">", "0.1">>,
    <<"AREA", "M1", "<", "0.1">>,
    <<"INTERNAL1", "M1", "<", "0.1", "SINGULAR">>,
    <<"INTERNAL1", "M1", "<", "1.2.3">>,
    <<"OFFGRID", "M1">> }

SimpleFiles ==
  {BlockLines(h, b) :
     h \in SimpleHeads,
     b \in UNION {[1..n -> SimpleClauses] : n \in 1..MaxClauses}}
  \cup ItemFiles

Simple_Init == \E f \in SimpleFiles : Start(f)

\* translate_file, first part: one iteration of the loop of parse_lines
Simple_ParseStep ==
  /\ pc = "parse"
  /\ \E r \in {Simple_parse_lines_iter(lines, i,
                 [layers |-> layers, rules |-> rules, includes |-> includes,
                  errors |-> errors])} :
        /\ i' = r.i
        /\ layers' = r.layers
        /\ rules' = r.rules
        /\ includes' = r.includes
        /\ errors' = r.errors
        /\ pc' = IF r.i > Len(lines) THEN "parsed" ELSE "parse"
  /\ UNCHANGED <<lines, icv_layers, icv_rules, tokvars>>

\* translate_file, after the parse: False on parser errors
Basic_ReturnFalse ==
  /\ pc = "parsed"
  /\ errors # <<>>
  /\ pc' = "failed"
  /\ UNCHANGED <<lines, i, layers, rules, includes, errors, icv_layers, icv_rules,
               tokvars>>

\* translate_file, after the parse: translate_layers, translate_rules
Basic_Translate ==
  /\ pc = "parsed"
  /\ errors = <<>>
  /\ icv_layers' =
       icv_layers \o [k \in 1..Len(layers) |-> Basic_translate_layer(layers[k])]
  /\ icv_rules' = icv_rules \o Basic_translate_rules(rules)
  /\ pc' = "translated"
  /\ UNCHANGED <<lines, i, layers, rules, includes, errors, tokvars>>

Simple_Next == Simple_ParseStep \/ Basic_ReturnFalse \/ Basic_Translate

SpecSimple == Simple_Init /\ [][Simple_Next]_vars

\* the block that starts on line ln has its name, brace and annotation on
\* the first line and the given clause, alone, as its body
BodyIs(ln, clause) ==
  /\ HeadOnly(lines[ln])
  /\ BodyText(ln) = clause \o <<"}">>

\* C9: every rule whose body is "L1 NOT INSIDE L2 BY == v" is translated to
\* the check enclosure(L2, L1) >= v, L2 being the layer named in the body,
\* whatever the rule name and the description are.
C9_EnclosingLayerFromBody ==
  pc = "translated" =>
    \A k \in 1..Len(rules) :
       \A L1, L2 \in LayerNames :
          \A v \in {"0.05", "0.1"} :
             BodyIs(rules[k].line_number,
                    <<L1, "NOT", "INSIDE", L2, "BY", "==", v>>)
             => \E j \in 1..Len(icv_rules) :
                   /\ icv_rules[j].line_number = rules[k].line_number
                   /\ icv_rules[j].icv_syntax =
                        [fn |-> "enclosure", args |-> <<L2, L1>>,
                         op |-> ">=", value |-> FloatOf(v)]

\* ------------------------------------------------------------------------
\* EnhancedSVRFParser.parse_lines
\* ------------------------------------------------------------------------

EnhancedHeads ==
  { [name |-> "R1", desc |-> <<>>],
    [name |-> "AREA_RULE", desc |-> <<"AREA", "check">>] }

EnhancedClauses ==
  Clauses \cup
  { <<"INTERNAL1", "M1", "<", "0.1", "OPPOSITE">>,
    <<"SINGULAR">> }

EnhancedFiles ==
  {BlockLines(h, b) :
     h \in EnhancedHeads,
     b \in UNION {[1..n -> EnhancedClauses] : n \in 1..MaxClauses}}
  \cup ItemFiles

Enhanced_Init == \E f \in EnhancedFiles : Start(f)

\* one iteration of the loop of parse_lines
Enhanced_ParseStep ==
  /\ pc = "parse"
  /\ \E r \in {Enhanced_parse_lines_iter(lines, i,
                 [layers |-> layers, rules |-> rules, includes |-> includes,
                  errors |-> errors])} :
        /\ i' = r.i
        /\ layers' = r.layers
        /\ rules' = r.rules
        /\ includes' = r.includes
        /\ errors' = r.errors
        /\ pc' = IF r.i > Len(lines) THEN "parsed" ELSE "parse"
  /\ UNCHANGED <<lines, icv_layers, icv_rules, tokvars>>

Enhanced_Next == Enhanced_ParseStep

SpecEnhanced == Enhanced_Init /\ [][Enhanced_Next]_vars

\* the text holds a complete clause of the pattern named cat
HasClause(text, cat) ==
  \E k \in 1..Len(Enhanced_Patterns) :
     /\ Enhanced_Patterns[k].cat = cat
     /\ Search(Enhanced_Patterns[k].pat, text, TRUE) > 0

\* C6: a rule whose content holds both a complete RECTANGLE clause and an
\* INTERNAL1 width clause is recorded as pattern_matching, with its
\* pattern_params filled.
C6_RectangleOverWidth ==
  \A k \in 1..Len(rules) :
     \A c \in {ContentOf(rules[k].line_number)} :
        (HasClause(c, "rectangle") /\ HasClause(c, "width"))
        => /\ rules[k].rule_type = "pattern_matching"
           /\ rules[k].pattern_params.type = "rectangle"

\* C7: a rule whose body is "EXTERNAL1 L op v SAME_MASK" is recorded as
\* multi_patterning with SAME_MASK among its extra_params.
C7_SameMaskSpacing ==
  \A k \in 1..Len(rules) :
     \A L \in LayerNames :
        \A op \in {"<", ">", "=="} :
           \A v \in {"0.05", "0.1"} :
              BodyIs(rules[k].line_number, <<"EXTERNAL1", L, op, v, "SAME_MASK">>)
              => /\ rules[k].rule_type = "multi_patterning"
                 /\ \E j \in 1..Len(rules[k].extra_params) :
                       rules[k].extra_params[j] = "SAME_MASK"

\* ------------------------------------------------------------------------
\* SVRFParser(SVRFLexer(text).tokenize()).parse()
\* ------------------------------------------------------------------------

\* the top-level statements of the texts handed to the lexer, each a list
\* of lines
TokItems ==
  { << <<"LAYER", "M1", "100">> >>,
    << <<"LAYER", "M2", "1.2.3">> >>,
    << <<"LAYER", "GATE", "=", "M1", "AND", "M2">> >>,
    << <<"GATE", "=", "M1", "AND", "M2">> >>,
    << <<"LAYER", "100">> >>,
    << <<"LAYER", "M1">> >>,
    << <<"LAYER", "VIA1", "9007199254740993">> >>,
    << <<"INCLUDE", QUOTE, "M1", QUOTE>> >>,
    << <<"LAYOUT", "M1">> >>,
    << <<"//", "M1">>, <<>> >>,
    << <<"R1", "{", "@", QUOTE, "AREA", "check", QUOTE>>,
       <<"INTERNAL1", "M1", "<", "0.1">>, <<"}">> >>,
    << <<"R1", "{", "EXTERNAL1", "M1", "==", "0.1", "OFFGRID", "}">> >>,
    << <<"R1", "{">>, <<"INTERNAL1", "M1", "<", "0.1", "SINGULAR">>, <<"}">> >>,
    << <<"R1", "{">>, <<"EXTERNAL", "M1", "M2", "<", "0.1">>, <<"}">> >>,
    << <<"R1", "{">>, <<"INTERNAL2", "M1", "<", "1.2.3">>, <<"}">> >>,
    << <<"R1", "{">>, <<"AREA", "M1", "<", "0.1">>, <<"}">> >>,
    << <<"R1", "{">>, <<"DENSITY", "M1", "WINDOW", "100", "100", "<", "0.7">>,
       <<"}">> >>,
    << <<"R1", "{">>, <<"DENSITY", "M1", "WINDOW", "1.2.3", "100", ">", "0.7">>,
       <<"}">> >>,
    << <<"R1", "{">>, <<"OFFGRID", "M1">>, <<"}">> >>,
    << <<"R1", "{">>, <<"INTERNAL1", "M1", "<", "0.1">> >> }

TokFiles ==
  {Flatten(f) : f \in UNION {[1..n -> TokItems] : n \in 1..MaxItems}}

\* SVRFParser(tokens) on the tokens of file f
Tok_Init ==
  \E f \in TokFiles :
     /\ lines = f
     /\ tokens = tokenize(TextOf(f))
     /\ pos = 1
     /\ loc = NoRule
     /\ pc = "main_test"
     /\ i = 0
     /\ layers = <<>>
     /\ rules = <<>>
     /\ includes = <<>>
     /\ errors = <<>>
     /\ icv_layers = <<>>
     /\ icv_rules = <<>>

\* the parser moves to the place and the values r
Tok_Goto(r) ==
  /\ pc' = r.pc
  /\ pos' = r.pos
  /\ layers' = r.layers
  /\ rules' = r.rules
  /\ includes' = r.includes
  /\ errors' = r.errors
  /\ loc' = r.loc
  /\ UNCHANGED <<lines, i, tokens, icv_layers, icv_rules>>

Tok_Here(pc2) == Out(pc2, pos, layers, rules, includes, errors, loc)

Tok_State ==
  [layers |-> layers, rules |-> rules, includes |-> includes, errors |-> errors]

\* parse: the test of the while loop; parse returns when it fails
Tok_MainTest ==
  /\ pc = "main_test"
  /\ Tok_Goto(Tok_Here(IF tokens[pos].type # "EOF" THEN "main_body" ELSE "done"))

\* parse: one pass through the body of the while loop, up to the next
\* test of a loop
Tok_MainBody ==
  /\ pc = "main_body"
  /\ Tok_Goto(Tok_statement(tokens,
                            SkipType(tokens, SkipType(tokens, pos, "NEWLINE"),
                                     "COMMENT"),
                            Tok_State))

\* parse_drc_rule, DENSITY: the test of the window loop, and what follows
\* the loop
Tok_WindowTest ==
  /\ pc = "window_test"
  /\ Tok_Goto(IF tokens[pos].type = "NUMBER" /\ Len(loc.window_params) < 2
              THEN Tok_Here("window_body")
              ELSE DensityTail(tokens, pos, Tok_State,
                               [loc EXCEPT !.has_window = TRUE]))

\* parse_drc_rule, DENSITY: the body of the window loop
Tok_WindowBody ==
  /\ pc = "window_body"
  /\ Tok_Goto(IF FloatOKCh(tokens[pos].value)
              THEN [Tok_Here("window_test") EXCEPT
                      !.pos = Adv(tokens, pos),
                      !.loc.window_params =
                         Append(@, FloatOfCh(tokens[pos].value))]
              ELSE Tok_Here("raised"))

\* parse_drc_rule, INTERNAL/EXTERNAL: the test of the loop over the
\* additional parameters
Tok_ExtrasTest ==
  /\ pc = "extras_test"
  /\ Tok_Goto(Tok_Here(IF tokens[pos].type \notin {"RBRACE", "NEWLINE"}
                       THEN "extras_body" ELSE "brace_test"))

\* its body: only an IDENTIFIER is consumed
Tok_ExtrasBody ==
  /\ pc = "extras_body"
  /\ Tok_Goto(IF tokens[pos].type = "IDENTIFIER"
              THEN [Tok_Here("extras_test") EXCEPT
                      !.pos = Adv(tokens, pos),
                      !.loc.params = @ \cup {tokens[pos].value}]
              ELSE Tok_Here("extras_test"))

\* parse_drc_rule: the test of the loop that skips to the closing brace,
\* and after the loop the end of parse_drc_rule
Tok_BraceTest ==
  /\ pc = "brace_test"
  /\ Tok_Goto(IF tokens[pos].type # "RBRACE"
              THEN Tok_Here("brace_body")
              ELSE [Tok_Here("main_test") EXCEPT
                      !.pos = Adv(tokens, pos),
                      !.rules = Append(@, Tok_DRCRule(loc)),
                      !.loc = NoRule])

\* its body: advance()
Tok_BraceBody ==
  /\ pc = "brace_body"
  /\ Tok_Goto([Tok_Here("brace_test") EXCEPT !.pos = Adv(tokens, pos)])

Tok_Next ==
  \/ Tok_MainTest
  \/ Tok_MainBody
  \/ Tok_WindowTest
  \/ Tok_WindowBody
  \/ Tok_ExtrasTest
  \/ Tok_ExtrasBody
  \/ Tok_BraceTest
  \/ Tok_BraceBody

SpecTok == Tok_Init /\ [][Tok_Next]_vars

LoopBodies == {"main_body", "window_body", "extras_body", "brace_body"}

\* C1: every pass through the body of the loop of parse and of the loops of
\* parse_drc_rule moves pos forward, unless it leaves the loop (parse
\* returns or an exception ends it).
C1_EveryIterationAdvances ==
  [][(pc \in LoopBodies /\ pc' \notin {"done", "raised"}) => pos' > pos]_vars

\* C2: no exception leaves parse, whatever NUMBER tokens the text holds.
C2_ParseNeverRaises == pc # "raised"

\* ------------------------------------------------------------------------
\* Properties of EnhancedSVRFParser: flags
\* ------------------------------------------------------------------------

\* C11: whenever SINGULAR or OPPOSITE occurs in the content of a recorded
\* rule, that flag is among the rule's extra_params, whatever its rule_type.
C11_FlagsRecorded ==
  \A k \in 1..Len(rules) :
     \A flag \in {"SINGULAR", "OPPOSITE"} :
        HasSub(ContentOf(rules[k].line_number), flag)
        => \E j \in 1..Len(rules[k].extra_params) :
              rules[k].extra_params[j] = flag

\* ------------------------------------------------------------------------
\* Properties of the token-based SVRFParser: layer statements
\* ------------------------------------------------------------------------

\* where the statement handled by this pass of the loop of parse starts
StatementPos == SkipType(tokens, SkipType(tokens, pos, "NEWLINE"), "COMMENT")

\* the tokens from position q on are of the given types
TypesAt(q, types) ==
  /\ q + Len(types) - 1 <= Len(tokens)
  /\ \A k \in 1..Len(types) : tokens[q + k - 1].type = types[k]

\* the decimal text of the number written as the digits cs
NoLeadingZeros(cs) ==
  IF \A k \in 1..Len(cs) : cs[k] = "0" THEN <<"0">>
  ELSE SubSeq(cs, CHOOSE k \in 1..Len(cs) :
                    cs[k] # "0" /\ \A j \in 1..(k - 1) : cs[j] = "0",
              Len(cs))

\* C12: the statement "LAYER X n", n a run of digits, adds exactly one
\* layer record, with name X, gds_layer n and no expression.
C12_PrimaryLayerRecorded ==
  [][\A q \in {StatementPos} :
        (/\ pc = "main_body"
         /\ TypesAt(q, <<"LAYER", "IDENTIFIER", "NUMBER">>)
         /\ AllCh(LAMBDA ch : ch \in Digits, tokens[q + 2].value))
        => layers' = Append(layers,
                            LayerDefinition(tokens[q + 1].value, "gds",
                                            NoLeadingZeros(tokens[q + 2].value),
                                            <<>>, tokens[q].line))]_vars

\* the token list without the token at position q
WithoutToken(q) ==
  [k \in 1..(Len(tokens) - 1) |-> IF k < q THEN tokens[k] ELSE tokens[k + 1]]

\* C13: "LAYER X = expr" and "X = expr" on the same line give equal layer
\* records: what parse_layer_definition does on the statement is what
\* parse_derived_layer does on the same tokens without the LAYER keyword.
C13_BothFormsSameRecord ==
  \A q \in {StatementPos} :
     (pc = "main_body" /\ TypesAt(q, <<"LAYER", "IDENTIFIER", "ASSIGN">>))
     => \A a \in {Tok_parse_layer_definition(tokens, q, Tok_State)} :
           \A b \in {Tok_parse_derived_layer(WithoutToken(q), q, Tok_State)} :
              /\ a.layers = b.layers
              /\ Len(a.layers) = Len(layers) + 1
              /\ a.errors = b.errors
              /\ a.pc = b.pc
              /\ a.pos = b.pos + 1

\* a "LAYER X = expr" statement with a non-empty expression is about to be
\* handled
C13_Witness ==
  /\ pc = "main_body"
  /\ TypesAt(StatementPos, <<"LAYER", "IDENTIFIER", "ASSIGN", "IDENTIFIER">>)

\* the statement at q is a LAYER keyword that is not followed by a layer
\* name and then a number or "="
MalformedLayerAt(q) ==
  /\ tokens[q].type = "LAYER"
  /\ ~(/\ tokens[q + 1].type = "IDENTIFIER"
       /\ tokens[q + 2].type \in {"NUMBER", "ASSIGN"})

\* C14: a malformed LAYER statement adds no layer record, adds at least one
\* entry to errors, and the loop of parse goes on after it.
C14_MalformedLayerReported ==
  [][\A q \in {StatementPos} :
        (pc = "main_body" /\ MalformedLayerAt(q))
        => /\ layers' = layers
           /\ Len(errors') > Len(errors)
           /\ pc' = "main_test"]_vars

\* ------------------------------------------------------------------------
\* Properties of the line-based parser and of translate_file: errors
\* ------------------------------------------------------------------------

\* the block that starts on line ln is still open when the input ends
OpenAtEnd(ln) == ScanBlock(lines, ln, 0, FALSE, <<>>).i > Len(lines)

\* C15: when the input ends inside the rule block that starts on line ln,
\* errors holds an entry for line ln.
C15_UnclosedBlockReported ==
  pc # "parse" =>
    \A k \in 1..Len(rules) :
       OpenAtEnd(rules[k].line_number)
       => \E j \in 1..Len(errors) : errors[j].line = rules[k].line_number

\* C16: a parse error recorded for one line does not halt translate_file:
\* when it returns, the layers and rules that were parsed are translated.
C16_ErrorDoesNotHalt ==
  (pc \notin {"parse", "parsed"} /\ errors # <<>>)
  => /\ pc = "translated"
     /\ Len(icv_layers) = Len(layers)
     /\ icv_rules = Basic_translate_rules(rules)

\* ------------------------------------------------------------------------
\* SVRFParser.parse_file: opening and reading the file
\* ------------------------------------------------------------------------

\* what open() and readlines() can do: succeed, or raise one of these
OpenFailures == {"FileNotFoundError", "PermissionError", "IsADirectoryError"}

\* the state after the constructor, before the file is opened
ParseFile_Init ==
  /\ lines = <<>>
  /\ i = 1
  /\ pc = "open"
  /\ layers = <<>>
  /\ rules = <<>>
  /\ includes = <<>>
  /\ errors = <<>>
  /\ icv_layers = <<>>
  /\ icv_rules = <<>>
  /\ tokens = <<>>
  /\ pos = 0
  /\ loc = NoRule

\* with open(filename) as f: lines = f.readlines()
ParseFile_Read ==
  /\ pc = "open"
  /\ \E f \in SimpleFiles : lines' = f
  /\ pc' = "parse"
  /\ UNCHANGED <<i, layers, rules, includes, errors, icv_layers, icv_rules,
               tokvars>>

\* except FileNotFoundError: one entry in errors (the message has the file
\* name and no line, written as line 0), and return
ParseFile_NotFound ==
  /\ pc = "open"
  /\ errors' = Append(errors, [line |-> 0])
  /\ pc' = "returned"
  /\ UNCHANGED <<lines, i, layers, rules, includes, icv_layers, icv_rules,
               tokvars>>

\* any other failure of open or readlines leaves parse_file as an exception
ParseFile_Raise ==
  /\ pc = "open"
  /\ \E e \in OpenFailures \ {"FileNotFoundError"} : pc' = "raised"
  /\ UNCHANGED <<lines, i, layers, rules, includes, errors, icv_layers,
               icv_rules, tokvars>>

ParseFile_Next ==
  ParseFile_Read \/ ParseFile_NotFound \/ ParseFile_Raise \/ Simple_ParseStep

SpecParseFile == ParseFile_Init /\ [][ParseFile_Next]_vars

\* C17: when the file cannot be opened or read, parse_file returns with
\* exactly one error and no layers, rules or includes, and does not raise.
C17_OpenFailureReported ==
  [][(pc = "open" /\ pc' # "parse")
     => /\ pc' = "returned"
        /\ Len(errors') = 1
        /\ layers' = <<>> /\ rules' = <<>> /\ includes' = <<>>]_vars

\* ------------------------------------------------------------------------
\* translate_layer_expression on the expressions of derived layers
\* ------------------------------------------------------------------------

MaxExprLen == 3

\* the words of an expression: layer names (one with NOT inside it), the
\* connectives, parentheses alone and written against a word
ExprWords == {"M1", "NOTCH", "AND", "OR", "NOT", "(NOT", "M2)", "(", ")"}

Exprs == UNION {[1..n -> ExprWords] : n \in 1..MaxExprLen}

\* a file of one line, GATE = expression
Expr_Init == \E e \in Exprs : Start(<< <<"GATE", "=">> \o e >>)

\* translate_file on such a file: parse_lines, then translate_layers
Expr_Next == Simple_ParseStep \/ Basic_Translate

SpecExpr == Expr_Init /\ [][Expr_Next]_vars

\* the connective keywords and what replaces them
Connective == "AND" :> "&" @@ "OR" :> "|" @@ "NOT" :> "!"

\* kw stands in the word w as a whole word: its letters, with no word
\* character directly before or after them
WholeWordIn(kw, w) ==
  LET At(cs, ks) ==
        \E p \in 1..(Len(cs) - Len(ks) + 1) :
           /\ SubSeq(cs, p, p + Len(ks) - 1) = ks
           /\ (p = 1 \/ ~IsWordCh(cs[p - 1]))
           /\ (p + Len(ks) - 1 = Len(cs) \/ ~IsWordCh(cs[p + Len(ks)]))
  IN At(Chars[w], Chars[kw])

\* C18: the translated expression of a derived layer holds no whole-word
\* AND, OR or NOT.
C18_NoKeywordLeft ==
  pc = "translated" =>
    \A k \in 1..Len(icv_layers) :
       icv_layers[k].kind = "expr" =>
         \A j \in 1..Len(icv_layers[k].expression) :
            \A kw \in DOMAIN Connective :
               ~WholeWordIn(kw, icv_layers[k].expression[j])

\* C19: the translated expression has the words of the expression in the
\* same order, each one unchanged or a connective keyword replaced by its
\* symbol.
C19_OnlyKeywordsChange ==
  pc = "translated" =>
    /\ Len(icv_layers) = Len(layers)
    /\ \A k \in 1..Len(layers) :
          layers[k].kind = "expr" =>
            \A x \in {layers[k].expression} :
            \A y \in {icv_layers[k].expression} :
               /\ Len(y) = Len(x)
               /\ \A j \in 1..Len(x) :
                     \/ y[j] = x[j]
                     \/ x[j] \in DOMAIN Connective /\ y[j] = Connective[x[j]]

\* a translated expression with a replaced connective, a name that has NOT
\* inside it, and a parenthesis
C19_Witness ==
  /\ pc = "translated"
  /\ Len(layers) = 1 /\ Len(icv_layers) = 1
  /\ layers[1].kind = "expr"
  /\ icv_layers[1].expression # layers[1].expression
  /\ \E j \in 1..Len(layers[1].expression) : layers[1].expression[j] = "NOTCH"
  /\ \E j \in 1..Len(layers[1].expression) :
        layers[1].expression[j] \in {"(", ")", "(NOT", "M2)"}

\* ------------------------------------------------------------------------
\* SVRFLexer.tokenize, one pass of its loop at a time
\* ------------------------------------------------------------------------

MaxTextLen == 3

\* a quote, a backslash, a slash, a dot, a digit, a letter, a blank, a
\* newline, the assignment sign and a character no branch knows
LexChars == {QUOTE, BACKSLASH, "/", ".", "1", "A", " ", NL, "=", "#"}

Texts == UNION {[1..n -> LexChars] : n \in 0..MaxTextLen}

\* SVRFLexer(text): loc holds text, line and column, pos the position
Lex_Init ==
  \E t \in Texts :
     /\ loc = [text |-> t, line |-> 1, column |-> 1]
     /\ pos = 1
     /\ tokens = <<>>
     /\ pc = "lex"
     /\ lines = <<>>
     /\ i = 0
     /\ layers = <<>>
     /\ rules = <<>>
     /\ includes = <<>>
     /\ errors = <<>>
     /\ icv_layers = <<>>
     /\ icv_rules = <<>>

\* while self.current_char(): one pass through the body of the loop
Lex_Iterate ==
  /\ pc = "lex"
  /\ pos <= Len(loc.text)
  /\ \E r \in {Lex_iter(loc.text, pos, loc.line, loc.column)} :
        /\ pos' = r.pos
        /\ loc' = [loc EXCEPT !.line = r.line, !.column = r.column]
        /\ tokens' = tokens \o r.toks
        /\ pc' = IF r.break THEN "after_loop" ELSE "lex"
  /\ UNCHANGED <<lines, i, layers, rules, includes, errors, icv_layers,
               icv_rules>>

\* after the loop: the EOF token is appended and tokens returned
Lex_Return ==
  /\ \/ pc = "lex" /\ pos > Len(loc.text)
     \/ pc = "after_loop"
  /\ tokens' = Append(tokens, Token("EOF", <<>>, loc.line, loc.column))
  /\ pc' = "lexed"
  /\ UNCHANGED <<lines, i, layers, rules, includes, errors, icv_layers,
               icv_rules, pos, loc>>

Lex_Next == Lex_Iterate \/ Lex_Return

SpecLex == Lex_Init /\ [][Lex_Next]_vars

\* the interpreter keeps running tokenize until it returns
SpecLexLive == SpecLex /\ WF_vars(Lex_Next)

\* C20: tokenize returns on every text, and the tokens it returns hold
\* exactly one EOF token, the last one.
C20_TokenizeEndsWithOneEOF ==
  <>[](/\ pc = "lexed"
       /\ Len(tokens) > 0
       /\ \A k \in 1..Len(tokens) : tokens[k].type = "EOF" <=> k = Len(tokens))

\* tokenize has returned on a string literal that is not closed and ends
\* in a backslash
C20_Witness ==
  /\ pc = "lexed"
  /\ Len(loc.text) = 3
  /\ loc.text[1] = QUOTE
  /\ loc.text[2] \notin {QUOTE, BACKSLASH}
  /\ loc.text[3] = BACKSLASH

\* ------------------------------------------------------------------------
\* Properties of the lexer: round trip and positions
\* ------------------------------------------------------------------------

\* the text written back from the tokens of cs from position p0 on: the
\* blanks before a token as they are, the value of the token where the
\* token started, blanks up to where it ended
RECURSIVE RebuildFrom(_, _, _, _)
RebuildFrom(cs, p0, line0, column0) ==
  IF p0 > Len(cs) THEN <<>>
  ELSE LET blanks == PrefixRun(IsBlankCh, SubSeq(cs, p0, Len(cs)))
           Written(r) ==
             LET value == IF r.toks = <<>> THEN <<>> ELSE r.toks[1].value
                 room == r.pos - (p0 + blanks)
             IN SubSeq(cs, p0, p0 + blanks - 1) \o value \o
                [k \in 1..(room - Len(value)) |-> " "] \o
                (IF r.break THEN <<>>
                 ELSE RebuildFrom(cs, r.pos, r.line, r.column))
       IN Written(Lex_iter(cs, p0, line0, column0))

Kinds(toks) == [k \in 1..Len(toks) |-> toks[k].type]

\* C21: the text written back from the tokens of a text has the same
\* sequence of token kinds as the text.
C21_RoundTripKinds ==
  pc = "lexed" =>
    Kinds(tokenize(RebuildFrom(loc.text, 1, 1, 1))) = Kinds(tokens)

\* the 1-based line of position q of the text cs, and its 1-based column
LineAt(cs, q) == 1 + Cardinality({k \in 1..(q - 1) : cs[k] = NL})

ColumnAt(cs, q) ==
  LET nls == {k \in 1..(q - 1) : cs[k] = NL}
  IN IF nls = {} THEN q ELSE q - (CHOOSE k \in nls : \A j \in nls : j <= k)

\* the token tok starts at position q of cs: the line and column it carries
\* are those of q, and the character there is its first one (the end of the
\* text for EOF)
StartsAt(tok, cs, q) ==
  /\ tok.line = LineAt(cs, q)
  /\ tok.column = ColumnAt(cs, q)
  /\ CASE tok.type = "EOF" -> q = Len(cs) + 1
       [] tok.type = "STRING" -> q <= Len(cs) /\ cs[q] \in {QUOTE, "'"}
       [] tok.type = "COMMENT" -> q <= Len(cs) /\ cs[q] = "/"
       [] OTHER -> q <= Len(cs) /\ cs[q] = tok.value[1]

\* C22: line and column are those of the position pos the lexer stands at,
\* and every token carries the line and column of its first character.
C22_LineColumnTrack ==
  pc \in {"lex", "after_loop", "lexed"} =>
    /\ loc.line = LineAt(loc.text, pos)
    /\ loc.column = ColumnAt(loc.text, pos)
    /\ \A k \in 1..Len(tokens) :
          \E q \in 1..(Len(loc.text) + 1) : StartsAt(tokens[k], loc.text, q)

\* tokenize has returned a token that starts on the second line, after the
\* first column
C22_Witness ==
  /\ pc = "lexed"
  /\ \E k \in 1..Len(tokens) :
        tokens[k].type = "IDENTIFIER" /\ tokens[k].line = 2 /\ tokens[k].column = 2

\* ------------------------------------------------------------------------
\* Properties of FinalEnhancedTranslator: rule blocks, translate_to_icv
\* ------------------------------------------------------------------------

\* line idx of ls is taken by the branch "DRC rules" of parse_file
Final_BlockStartsAt(ls, idx) ==
  \A line \in {ls[idx]} :
     /\ line # <<>>
     /\ ~StartsWith(line, "//")
     /\ ~StartsWith(line, "INCLUDE")
     /\ ~StartsWith(line, "LAYOUT")
     /\ ~StartsWith(line, "LAYER")
     /\ ~(HasSub(line, "=") /\ ~HasSub(line, "{") /\ ~HasSub2(line, "NOT", "INSIDE"))
     /\ \/ HasSub(line, "{")
        \/ (idx + 1 <= Len(ls) /\ HasSub(ls[idx + 1], "{"))

\* the lines from idx on at which "{" minus "}", counted from line idx, is
\* zero and a "{" has been seen
ClosingLines(ls, idx) ==
  LET RECURSIVE Opened(_)
      Opened(j) == IF j < idx THEN 0
                   ELSE Opened(j - 1) + CountInLine("{", ls[j])
      RECURSIVE Closed(_)
      Closed(j) == IF j < idx THEN 0
                   ELSE Closed(j - 1) + CountInLine("}", ls[j])
  IN {j \in idx..Len(ls) : Opened(j) > 0 /\ Opened(j) = Closed(j)}

\* C23: a rule block that starts on line i and has a closing line is
\* recorded as one rule, and parsing goes on with the line after the first
\* closing line.
C23_BlockEndsAtClosingLine ==
  [][(pc = "parse" /\ i <= Len(lines) /\ Final_BlockStartsAt(lines, i))
     => \A cl \in {ClosingLines(lines, i)} :
          cl # {} =>
            /\ i' = 1 + (CHOOSE j \in cl : \A k \in cl : j <= k)
            /\ Len(rules') = Len(rules) + 1
            /\ rules'[Len(rules')].line_number = i
            /\ layers' = layers]_vars

\* C24: after translate_to_icv, however often it was called, icv_rules has
\* one entry per parsed rule, in order and under the same name, and
\* icv_layers one entry per parsed layer.
C24_OneEntryPerRuleAndLayer ==
  pc = "translated" =>
    /\ Len(icv_rules) = Len(rules)
    /\ \A k \in 1..Len(rules) : icv_rules[k].name = rules[k].name
    /\ Len(icv_layers) = Len(layers)
    /\ \A k \in 1..Len(layers) : icv_layers[k].name = layers[k].name

\* translate_to_icv has run on a file with a layer and a rule of type
\* unknown
C24_Witness ==
  /\ pc = "translated"
  /\ Len(layers) > 0
  /\ \E k \in 1..Len(rules) :
        rules[k].rule_type = "unknown" /\ icv_rules[k].operation = "generic check"

\* ------------------------------------------------------------------------
\* The line-based parser and the token-based parser on the same text
\* ------------------------------------------------------------------------

\* rule blocks with the name on the line before the opening brace
NameFirstItems ==
  { << <<"R1">>, <<"{">>, <<"AREA", "M1", "<", "0.1">>, <<"}">> >>,
    << <<"R1">>, <<"{", "INTERNAL1", "M1", "<", "0.1", "}">> >>,
    << <<"AREA_RULE">>, <<"{">>, <<"EXTERNAL1", "M1", "==", "0.1">>, <<"}">> >> }

\* files of one statement (without the layer number of 16 digits, which
\* IntOf cannot hold)
BothFiles ==
  {Flatten(<<it>>) :
     it \in (TokItems \cup NameFirstItems)
            \ { << <<"LAYER", "VIA1", "9007199254740993">> >> }}

\* SVRFParser(SVRFLexer(text).tokenize()) on the text of file f
Both_Init ==
  \E f \in BothFiles :
     /\ lines = f
     /\ tokens = tokenize(TextOf(f))
     /\ pos = 1
     /\ loc = NoRule
     /\ pc = "main_test"
     /\ i = 0
     /\ layers = <<>>
     /\ rules = <<>>
     /\ includes = <<>>
     /\ errors = <<>>
     /\ icv_layers = <<>>
     /\ icv_rules = <<>>

SpecBoth == Both_Init /\ [][Tok_Next]_vars

\* simple_svrf_parser.SVRFParser.parse_lines: the loop from line idx on
RECURSIVE Simple_parse_lines_from(_, _, _)
Simple_parse_lines_from(ls, idx, st) ==
  IF idx > Len(ls) THEN st
  ELSE LET Go(r) ==
             Simple_parse_lines_from(ls, r.i,
               [layers |-> r.layers, rules |-> r.rules,
                includes |-> r.includes, errors |-> r.errors])
       IN Go(Simple_parse_lines_iter(ls, idx, st))

Simple_parse_lines(ls) ==
  Simple_parse_lines_from(ls, 1,
    [layers |-> <<>>, rules |-> <<>>, includes |-> <<>>, errors |-> <<>>])

\* C25: when parse has returned, every rule the line-based parser records
\* for the same text is among its rules, under the same name.
C25_LineRulesAreTokenRules ==
  pc = "done" =>
    \A s \in {Simple_parse_lines(lines)} :
       \A k \in 1..Len(s.rules) :
          \E j \in 1..Len(rules) : rules[j].name = JoinWords(s.rules[k].name)

\* ------------------------------------------------------------------------
\* Properties of the basic translator
\* ------------------------------------------------------------------------

\* C26: a density rule whose body is "DENSITY L WINDOW x y op v" is
\* translated to density(L, x, y) op v.
C26_DensityKeepsWindow ==
  pc = "translated" =>
    \A k \in 1..Len(rules) :
       (rules[k].rule_type = "density" /\ HeadOnly(lines[rules[k].line_number]))
       => \A b \in {BodyText(rules[k].line_number)} :
            (Len(b) = 8 /\ b[1] = "DENSITY" /\ b[3] = "WINDOW")
            => \E j \in 1..Len(icv_rules) :
                  /\ icv_rules[j].line_number = rules[k].line_number
                  /\ icv_rules[j].icv_syntax =
                       [fn |-> "density", args |-> <<b[2], b[4], b[5]>>,
                        op |-> b[6], value |-> FloatOf(b[7])]

\* the word w is an identifier, and not one of the statement keywords
IsRuleName(w) ==
  /\ w \notin {"LAYER", "LAYOUT", "INCLUDE"}
  /\ \A cs \in {Chars[w]} :
        AllCh(IsWordCh, cs) /\ cs[1] \notin Digits

\* C27: when the first line of the file is "NAME {", NAME an identifier,
\* and the content of that block parses, the rule NAME of line 1 is
\* recorded.
C27_AnyIdentifierNamesARule ==
  (/\ ParseDone
   /\ Len(lines[1]) >= 2
   /\ lines[1][2] = "{"
   /\ IsRuleName(lines[1][1])
   /\ ~Final_parse_rule_block(lines, 1, 1).raised)
  => \E k \in 1..Len(rules) :
        rules[k].line_number = 1 /\ rules[k].name = <<lines[1][1]>>

\* ------------------------------------------------------------------------
\* Properties of the line-based parser: exceptions inside a rule block
\* ------------------------------------------------------------------------

\* line idx of ls is taken by the branch "DRC rules" of parse_lines
Simple_BlockStartsAt(ls, idx) ==
  \A line \in {ls[idx]} :
     /\ line # <<>>
     /\ ~StartsWith(line, "//")
     /\ ~StartsWith(line, "INCLUDE")
     /\ ~StartsWith(line, "LAYOUT")
     /\ ~StartsWith(line, "LAYER")
     /\ ~(HasSub(line, "=") /\ ~HasSub(line, "{"))
     /\ \/ HasSub(line, "{")
        \/ (idx + 1 <= Len(ls) /\ HasSub(ls[idx + 1], "{"))

\* C28: when the rule block that starts on line i raises, one error is
\* appended, nothing else is recorded, and parsing goes on after the
\* closing line of the block.
C28_RaisingBlockIsSkipped ==
  [][(/\ pc = "parse"
      /\ i <= Len(lines)
      /\ Simple_BlockStartsAt(lines, i)
      /\ Len(errors') > Len(errors))
     => /\ Len(errors') = Len(errors) + 1
        /\ layers' = layers /\ rules' = rules /\ includes' = includes
        /\ \A cl \in {ClosingLines(lines, i)} :
              cl # {} => i' = 1 + (CHOOSE j \in cl : \A k \in cl : j <= k)]_vars

\* ------------------------------------------------------------------------
\* SVRFToICVTranslator.translate_file called again on the same instance
\* ------------------------------------------------------------------------

MaxCalls == 2

\* files of one statement
AgainFiles == {Flatten(<<it>>) : it \in Items}

\* a new translator about to read its first file; pos counts the calls of
\* translate_file that have returned
Again_Init == \E f \in AgainFiles : Start(f)

\* translate_file is called once more, on file f: the parser and the
\* translator keep what they hold
Basic_CallAgain ==
  /\ pc \in {"translated", "failed"}
  /\ pos + 1 < MaxCalls
  /\ pos' = pos + 1
  /\ \E f \in AgainFiles : lines' = f
  /\ i' = 1
  /\ pc' = "parse"
  /\ UNCHANGED <<layers, rules, includes, errors, icv_layers, icv_rules,
               tokens, loc>>

Again_Next ==
  Simple_ParseStep \/ Basic_ReturnFalse \/ Basic_Translate \/ Basic_CallAgain

SpecAgain == Again_Init /\ [][Again_Next]_vars

\* C29: when translate_file has returned True, icv_layers has one entry
\* per layer of the file just read and icv_rules at most one per rule of it.
C29_NothingAccumulates ==
  pc = "translated" =>
    \A s \in {Simple_parse_lines(lines)} :
       /\ Len(icv_layers) = Len(s.layers)
       /\ Len(icv_rules) <= Len(s.rules)

\* ------------------------------------------------------------------------
\* EnhancedSVRFToICVTranslator: translate_file, print_translation_summary
\* ------------------------------------------------------------------------

enhanced_rule_mappings ==
  {"internal1", "internal2", "external1", "external", "area", "density",
   "enclosure", "antenna", "pattern_matching", "multi_patterning",
   "advanced_constraint"}

\* the operation of the ICVRule that enhanced_rule_mappings[rule_type]
\* returns for the rule
Enhanced_operation(rule) ==
  LET t == rule.rule_type
      Has(w) == \E k \in 1..Len(rule.extra_params) : rule.extra_params[k] = w
  IN CASE t = "internal1" ->
            IF rule.operator = "<" THEN "width check" ELSE "width constraint"
       [] t = "internal2" -> "length check"
       [] t = "external1" ->
            IF rule.operator = "<" THEN "spacing check" ELSE "spacing constraint"
       [] t = "external" ->
            LET With(second_layer) ==
                  IF second_layer # "" THEN "inter-layer spacing"
                  ELSE "spacing check"
            IN IF rule.extra_params # <<>> THEN With(rule.extra_params[1])
               ELSE With(extract_second_layer(rule.name, rule.description))
       [] t = "area" -> "area check"
       [] t = "density" -> "density check"
       [] t = "enclosure" -> "enclosure check"
       [] t = "antenna" -> "antenna check"
       [] t = "pattern_matching" ->
            IF rule.pattern_params # NoPattern THEN "pattern matching"
            ELSE "pattern check"
       [] t = "multi_patterning" ->
            IF Has("SAME_MASK") THEN "same-mask spacing"
            ELSE "multi-patterning spacing"
       [] t = "advanced_constraint" ->
            IF Has("OPPOSITE") THEN "opposite constraint"
            ELSE "advanced constraint"

\* translate_rules_enhanced: one ICVRule per rule of a mapped type (its
\* name, layer, operation and line; the check text is left out), a warning
\* for the others
RECURSIVE Enhanced_translate_rules(_)
Enhanced_translate_rules(rs) ==
  IF rs = <<>> THEN <<>>
  ELSE (IF Head(rs).rule_type \in enhanced_rule_mappings
        THEN <<[name |-> Head(rs).name,
                description |-> Head(rs).description,
                layer |-> Head(rs).layer,
                operation |-> Enhanced_operation(Head(rs)),
                line_number |-> Head(rs).line_number]>>
        ELSE <<>>)
       \o Enhanced_translate_rules(Tail(rs))

\* translate_file, after the parse: False on parser errors
Enhanced_ReturnFalse ==
  /\ pc = "parsed"
  /\ errors # <<>>
  /\ pc' = "failed"
  /\ UNCHANGED <<lines, i, layers, rules, includes, errors, icv_layers, icv_rules,
               tokvars>>

\* translate_file, after the parse: translate_layers, translate_rules_enhanced
Enhanced_Translate ==
  /\ pc = "parsed"
  /\ errors = <<>>
  /\ icv_layers' =
       icv_layers \o [k \in 1..Len(layers) |-> Basic_translate_layer(layers[k])]
  /\ icv_rules' = icv_rules \o Enhanced_translate_rules(rules)
  /\ pc' = "translated"
  /\ UNCHANGED <<lines, i, layers, rules, includes, errors, tokvars>>

\* print_translation_summary after translate_file has returned True: the
\* coverage line divides by len(self.svrf_parser.rules)
Enhanced_PrintSummary ==
  /\ pc = "translated"
  /\ pc' = IF Len(rules) = 0 THEN "raised" ELSE "summarized"
  /\ UNCHANGED <<lines, i, layers, rules, includes, errors, icv_layers, icv_rules,
               tokvars>>

Summary_Next ==
  \/ Enhanced_ParseStep
  \/ Enhanced_ReturnFalse
  \/ Enhanced_Translate
  \/ Enhanced_PrintSummary

SpecSummary == Enhanced_Init /\ [][Summary_Next]_vars

\* C30: print_translation_summary, called after a file was translated,
\* completes without raising.
C30_SummaryCompletes ==
  [][pc = "translated" => pc' = "summarized"]_vars
====
